---- MODULE Spec2Model ----
(***************************************************************************)
(* Messaging domain service (internal/services): conversations, messages   *)
(* and attachments kept in a PostgreSQL record store, a Redis read-through *)
(* / write-invalidate cache of conversations, and a Redis event publisher. *)
(* Every request runs as its own goroutine; each store, cache and publish  *)
(* call is one atomic step of the request that makes it.                   *)
(***************************************************************************)
EXTENDS Integers, Sequences, FiniteSets, TLC

VARIABLES
    conversations,  \* table conversations: id -> row
    messages,       \* table messages: id -> row
    attachments,    \* table attachments: id -> row
    cache,          \* Redis keys "conversation:<id>": id -> JSON document
    events,         \* events published on the topic, oldest first
    clock,          \* the wall clock read by time.Now() and NOW()
    procs,          \* the requests in flight: process -> frame
    settled,        \* history: id -> status of the last status update that
                    \* returned success with no other update overlapping it
    wiring,         \* the collaborators main() selected, and the number of
                    \* rows the run stops creating at
    files,          \* the upload directory: URL -> file
    ttl             \* Redis: key -> time the key has left to live

vars == <<conversations, messages, attachments, cache, events, clock, procs,
          settled, wiring, files, ttl>>

----------------------------------------------------------------------------
(* Bounds of the model *)

\* conversation ids uuid.New() hands out
MaxConvs == 1
\* message ids uuid.New() hands out
MaxMsgs == 1
\* attachment ids uuid.New() hands out
MaxAtts == 1
\* ticks of the wall clock
MaxClock == 1
\* message ids handed out in the runs that page through a conversation
MaxPageMsgs == 2
\* attachment ids handed out in the runs that page through a conversation
MaxPageAtts == 2
\* files the upload directory takes
MaxFiles == 1
\* FILE_STORAGE_MAX_SIZE, in bytes
MaxFileSize == 1
\* conversation ids handed out in the runs that only create conversations
MaxCreated == 2

Users == {"u1", "u2"}
Procs == {"p1", "p2"}
SeqProcs == {"p1"}

\* an id no row ever has (a well-formed UUID that was never generated)
NoSuchId == 0

----------------------------------------------------------------------------
(* Domain values *)

Channels == {"web", "whatsapp"}
ConversationStatusActive == "active"
Statuses == {"active", "closed", "archived"}
SenderTypes == {"user"}
ContentTypes == {"text"}
Contents == {"hello"}
AttachmentTypes == {"image"}
Metadatas == {[priority |-> "normal"]}
Urls == {"/uploads/a.png"}
Filenames == {"a.png"}
Sizes == {1024}
\* byte counts of uploaded content and of the Size field sent with it
ContentSizes == 0..(MaxFileSize + 1)
\* the names os.Create is given: <uuid>_<time><ext> under the user's directory
UploadUrls == <<"/uploads/u/1", "/uploads/u/2", "/uploads/u/3">>
ConversationFilters ==
    {[channel |-> "", status |-> "", limit |-> 20, offset |-> 0],
     [channel |-> "", status |-> "", limit |-> 1, offset |-> 0],
     [channel |-> "", status |-> "", limit |-> 1, offset |-> 1],
     [channel |-> "", status |-> "", limit |-> 0, offset |-> 0],
     [channel |-> "web", status |-> "", limit |-> 20, offset |-> 0],
     [channel |-> "", status |-> "closed", limit |-> 20, offset |-> 0],
     [channel |-> "web", status |-> "closed", limit |-> 1, offset |-> 0]}
Paginations == {[limit |-> 50, offset |-> 0], [limit |-> 1, offset |-> 0],
                [limit |-> 0, offset |-> 1]}

NilConv == [id |-> NoSuchId]
NilMsg == [id |-> NoSuchId]
NilAtt == [id |-> NoSuchId]

Conversation(id, userID, channel, status, createdAt, updatedAt) ==
    [id |-> id, userId |-> userID, channel |-> channel, status |-> status,
     createdAt |-> createdAt, updatedAt |-> updatedAt]

Message(id, conversationID, senderType, senderID, content, contentType, metadata, ts) ==
    [id |-> id, conversationId |-> conversationID, senderType |-> senderType,
     senderId |-> senderID, content |-> content, contentType |-> contentType,
     metadata |-> metadata, timestamp |-> ts, attachments |-> <<>>]

Attachment(id, messageID, url, type, size, filename, createdAt) ==
    [id |-> id, messageId |-> messageID, url |-> url, type |-> type,
     size |-> size, filename |-> filename, createdAt |-> createdAt]

MessageEvent(message, now) ==
    [type |-> "message.received", conversationId |-> message.conversationId,
     message |-> message, timestamp |-> now]

\* every call hands out the same id
NewID_Fixed(table) == 1

\* uuid.New(): an id no row of the table has yet
NewID(table) == Cardinality(DOMAIN table) + 1

----------------------------------------------------------------------------
(* Record store: the PostgreSQL repositories and the schema's trigger *)

\* postgresConversationRepository.Create: INSERT INTO conversations
ConvCreate(table, conv) == table @@ (conv.id :> conv)

\* postgresConversationRepository.GetByID: the row, or sql.ErrNoRows
ConvGetByID(table, id) ==
    IF id \in DOMAIN table THEN table[id] ELSE NilConv

\* trigger update_conversations_updated_at: NEW.updated_at = NOW()
update_updated_at_column(row, now) == [row EXCEPT !.updatedAt = now]

\* the statement's arguments are bound in the wrong order: user_id receives
\* the channel and channel the user id
ConvUpdate_SwappedArgs(table, conv, now) ==
    IF conv.id \in DOMAIN table
    THEN [table EXCEPT ![conv.id] =
            update_updated_at_column(
                [@ EXCEPT !.userId = conv.channel, !.channel = conv.userId,
                          !.status = conv.status,
                          !.updatedAt = conv.updatedAt], now)]
    ELSE table

\* the statement leaves the status column out of its SET list
ConvUpdate_KeepsStatus(table, conv, now) ==
    IF conv.id \in DOMAIN table
    THEN [table EXCEPT ![conv.id] =
            update_updated_at_column(
                [@ EXCEPT !.userId = conv.userId, !.channel = conv.channel,
                          !.updatedAt = conv.updatedAt], now)]
    ELSE table

\* postgresConversationRepository.Update: UPDATE conversations SET user_id,
\* channel, status, updated_at WHERE id; no row affected leaves the table
ConvUpdate(table, conv, now) ==
    IF conv.id \in DOMAIN table
    THEN [table EXCEPT ![conv.id] =
            update_updated_at_column(
                [@ EXCEPT !.userId = conv.userId, !.channel = conv.channel,
                          !.status = conv.status,
                          !.updatedAt = conv.updatedAt], now)]
    ELSE table

\* a nil map[string]interface{}: the Metadata of a request that has none
NilJSONB == [nilMap |-> TRUE]
\* make(domain.JSONB)
EmptyJSONB == [emptyMap |-> TRUE]

\* json.Marshal(message.Metadata): a nil map is written as null, any other
\* map as an object of its members
MarshalMetadata(metadata) ==
    IF metadata = NilJSONB THEN [json |-> "null", members |-> EmptyJSONB]
    ELSE [json |-> "object", members |-> metadata]

\* the metadata read back is always the empty map
UnmarshalMetadata_Dropped(column) == EmptyJSONB

\* GetByID lines 170-178: a column without bytes gives an empty map; null
\* unmarshals to the nil map, an object to a map of its members
UnmarshalMetadata(column) ==
    IF column.json = "" THEN EmptyJSONB
    ELSE IF column.json = "null" THEN NilJSONB
    ELSE column.members

\* the columns of a row of messages; there is no attachments column
MsgRow(msg) ==
    [id |-> msg.id, conversationId |-> msg.conversationId,
     senderType |-> msg.senderType, senderId |-> msg.senderId,
     content |-> msg.content, contentType |-> msg.contentType,
     metadata |-> MarshalMetadata(msg.metadata), timestamp |-> msg.timestamp]

\* Scan of a row into a domain.Message
MsgScan(row) ==
    Message(row.id, row.conversationId, row.senderType, row.senderId,
            row.content, row.contentType, UnmarshalMetadata(row.metadata),
            row.timestamp)

\* postgresMessageRepository.Create: INSERT INTO messages
MsgCreate(table, msg) == table @@ (msg.id :> MsgRow(msg))

\* postgresMessageRepository.GetByID
MsgGetByID(table, id) ==
    IF id \in DOMAIN table THEN MsgScan(table[id]) ELSE NilMsg

\* the orders in which a query may return the rows ids of table under
\* ORDER BY key: rows with equal keys come in any order
RowOrders(table, ids, key, descending) ==
    {s \in [1..Cardinality(ids) -> ids] :
        /\ \A i, j \in DOMAIN s : i # j => s[i] # s[j]
        /\ \A i, j \in DOMAIN s : i < j =>
              IF descending THEN table[s[i]][key] >= table[s[j]][key]
              ELSE table[s[i]][key] <= table[s[j]][key]}

\* LIMIT and OFFSET, each appended to the query only when positive
LimitOffset(rows, pagination) ==
    LET first == IF pagination.offset > 0 THEN pagination.offset + 1 ELSE 1
        last == IF pagination.limit > 0 /\ first + pagination.limit - 1 < Len(rows)
                THEN first + pagination.limit - 1 ELSE Len(rows)
    IN SubSeq(rows, first, last)

\* postgresMessageRepository.GetByConversationID: the pages the query may
\* return, WHERE conversation_id ORDER BY timestamp DESC
MsgGetByConversationID(table, conversationID, pagination) ==
    LET ids == {id \in DOMAIN table : table[id].conversationId = conversationID}
    IN {LimitOffset([i \in DOMAIN s |-> MsgScan(table[s[i]])], pagination) :
            s \in RowOrders(table, ids, "timestamp", TRUE)}

\* the query has no WHERE user_id condition
ConvGetByUserID_AllUsers(table, userID, filters) ==
    LET ids == {id \in DOMAIN table :
                    /\ filters.channel # "" => table[id].channel = filters.channel
                    /\ filters.status # "" => table[id].status = filters.status}
    IN {LimitOffset([i \in DOMAIN s |-> table[s[i]]], filters) :
            s \in RowOrders(table, ids, "updatedAt", TRUE)}

\* postgresConversationRepository.GetByUserID: the pages the query may
\* return, WHERE user_id [AND channel] [AND status] ORDER BY updated_at DESC;
\* an empty filter is left out of the query
ConvGetByUserID(table, userID, filters) ==
    LET ids == {id \in DOMAIN table :
                    /\ table[id].userId = userID
                    /\ filters.channel # "" => table[id].channel = filters.channel
                    /\ filters.status # "" => table[id].status = filters.status}
    IN {LimitOffset([i \in DOMAIN s |-> table[s[i]]], filters) :
            s \in RowOrders(table, ids, "updatedAt", TRUE)}

\* postgresAttachmentRepository.Create: INSERT INTO attachments
AttCreate(table, att) == table @@ (att.id :> att)

\* postgresAttachmentRepository.GetByID
AttGetByID(table, id) ==
    IF id \in DOMAIN table THEN table[id] ELSE NilAtt

\* postgresAttachmentRepository.GetByMessageID: WHERE message_id ORDER BY
\* created_at ASC
AttGetByMessageID(table, messageID) ==
    LET ids == {id \in DOMAIN table : table[id].messageId = messageID}
    IN {[i \in DOMAIN s |-> table[s[i]]] :
            s \in RowOrders(table, ids, "createdAt", FALSE)}

----------------------------------------------------------------------------
(* Cache: redisCacheService / noOpCacheService *)

\* json.Marshal of a domain.Conversation (Messages is omitempty)
MarshalConversation(conv) ==
    [id |-> conv.id, user_id |-> conv.userId, channel |-> conv.channel,
     status |-> conv.status, created_at |-> conv.createdAt,
     updated_at |-> conv.updatedAt]

\* json.Unmarshal into a domain.Conversation
UnmarshalConversation(doc) ==
    Conversation(doc.id, doc.user_id, doc.channel, doc.status,
                 doc.created_at, doc.updated_at)

\* CacheService.GetConversation: the cached conversation, or NilConv with an
\* error (redis.Nil, a Redis failure, or "cache disabled")
CacheGetConversation(impl, keys, id, fail) ==
    IF impl = "noop" THEN [out |-> "err", val |-> NilConv]
    ELSE IF fail THEN [out |-> "err", val |-> NilConv]
    ELSE IF id \in DOMAIN keys
         THEN [out |-> "hit", val |-> UnmarshalConversation(keys[id])]
         ELSE [out |-> "miss", val |-> NilConv]

\* CacheService.SetConversation: SET conversation:<id>
CacheSetConversation(impl, keys, conv, fail) ==
    IF impl = "noop" \/ fail THEN keys
    ELSE [k \in DOMAIN keys \cup {conv.id} |->
            IF k = conv.id THEN MarshalConversation(conv) ELSE keys[k]]

\* the key is stored without an expiration
KeyLifetime_Persistent(kind) == -1

\* the expiration given to SET, in units of ten minutes: c.expiration for a
\* conversation, the local expiration of SetMessages for a message page
KeyLifetime(kind) == IF kind = "conversation" THEN 3 ELSE 1

\* SET with an expiration starts the key's lifetime anew
ExpirationAfterSet(impl, ttls, id, fail) ==
    IF impl = "noop" \/ fail THEN ttls
    ELSE [k \in DOMAIN ttls \cup {id} |->
            IF k = id THEN KeyLifetime("conversation") ELSE ttls[k]]

\* a removed key has no lifetime
ExpirationAfterDelete(ttls, keys) == [k \in DOMAIN ttls \cap DOMAIN keys |-> ttls[k]]

\* the key is left in place
CacheDeleteConversation_Keeps(impl, keys, id, fail) == keys

\* CacheService.DeleteConversation: DEL conversation:<id>
CacheDeleteConversation(impl, keys, id, fail) ==
    IF impl = "noop" \/ fail THEN keys
    ELSE [k \in DOMAIN keys \ {id} |-> keys[k]]

----------------------------------------------------------------------------
(* Event sink: redisEventPublisher / noOpEventPublisher *)

PublishMessageEvent(impl, topic, event, fail) ==
    IF impl = "noop" \/ fail THEN topic ELSE Append(topic, event)

----------------------------------------------------------------------------
(* Results and errors of the service *)

Ok(val) == [ok |-> TRUE, err |-> "", val |-> val]
Fail(err) == [ok |-> FALSE, err |-> err, val |-> <<>>]
NoResult == [ok |-> FALSE, err |-> "pending", val |-> <<>>]

ErrNoRowsConversation == "failed to get conversation: conversation not found"
ErrGetConversation == "failed to get conversation: failed to get conversation: db"
ErrAccessDenied == "conversation not found or access denied"
ErrGetConversations == "failed to get conversations: failed to get conversations: db"
ErrCreateConversation == "failed to create conversation: failed to create conversation: db"
ErrUpdateConversation == "failed to update conversation: failed to update conversation: db"
ErrUpdateNoRows == "failed to update conversation: conversation not found"
ErrCreateMessage == "failed to create message: failed to create message: db"
ErrGetMessages == "failed to get messages: failed to get messages: db"
ErrGetMessage == "failed to get message: failed to get message: db"
ErrNoRowsMessage == "failed to get message: message not found"
ErrGetAttachment == "failed to get attachment: failed to get attachment: db"
ErrNoRowsAttachment == "failed to get attachment: attachment not found"
ErrCreateAttachment == "failed to create attachment: failed to create attachment: db"
ErrRequiredField == "Field validation failed on the 'required' tag"
ErrFileTooLarge == "file size exceeds maximum allowed size"
ErrUploadDirectory == "failed to create upload directory: io"
ErrCreateFile == "failed to create file: io"
ErrWriteFile == "failed to write file: io"

----------------------------------------------------------------------------
(* Transport: what MessagingHandler answers for a service result *)

Response(status, code, message, data) ==
    [status |-> status, code |-> code, message |-> message, data |-> data]
NoResponse == Response(0, "", "", <<>>)

\* MessagingHandler.GetConversation: every service error becomes the same 404
HandlerGetConversation(r) ==
    IF r.ok
    THEN Response(200, "SUCCESS", "Conversation retrieved successfully", r.val)
    ELSE Response(404, "NOT_FOUND", "Conversation not found", <<>>)

\* MessagingHandler.GetConversations
HandlerGetConversations(r) ==
    IF r.ok
    THEN Response(200, "SUCCESS", "Conversations retrieved successfully", r.val)
    ELSE Response(500, "INTERNAL_ERROR", "Failed to get conversations", <<>>)

HandlerCreateConversation(r) ==
    IF r.ok
    THEN Response(201, "SUCCESS", "Conversation created successfully", r.val)
    ELSE Response(500, "INTERNAL_ERROR", "Failed to create conversation", <<>>)

HandlerUpdateConversation(r) ==
    IF r.ok
    THEN Response(200, "SUCCESS", "Conversation updated successfully", <<>>)
    ELSE Response(500, "INTERNAL_ERROR", "Failed to update conversation", <<>>)

HandlerSendMessage(r) ==
    IF r.ok
    THEN Response(201, "SUCCESS", "Message sent successfully", r.val)
    ELSE Response(500, "INTERNAL_ERROR", "Failed to send message", <<>>)

HandlerGetMessages(r) ==
    IF r.ok
    THEN Response(200, "SUCCESS", "Messages retrieved successfully", r.val)
    ELSE Response(500, "INTERNAL_ERROR", "Failed to get messages", <<>>)

HandlerGetMessage(r) ==
    IF r.ok
    THEN Response(200, "SUCCESS", "Message retrieved successfully", r.val)
    ELSE Response(404, "NOT_FOUND", "Message not found", <<>>)

HandlerGetAttachment(r) ==
    IF r.ok
    THEN Response(200, "SUCCESS", "Attachment retrieved successfully", r.val)
    ELSE Response(404, "NOT_FOUND", "Attachment not found", <<>>)

\* MessagingHandler.UploadAttachment
HandlerUploadAttachment(r) ==
    IF r.ok
    THEN Response(200, "SUCCESS", "File uploaded successfully", r.val)
    ELSE Response(500, "INTERNAL_ERROR", "Failed to upload file", <<>>)

\* the handler that serves op; CreateAttachment has no route
Respond(op, r) ==
    CASE op = "GetConversation" -> HandlerGetConversation(r)
      [] op = "GetConversations" -> HandlerGetConversations(r)
      [] op = "CreateConversation" -> HandlerCreateConversation(r)
      [] op = "UpdateConversationStatus" -> HandlerUpdateConversation(r)
      [] op = "SendMessage" -> HandlerSendMessage(r)
      [] op = "GetMessages" -> HandlerGetMessages(r)
      [] op = "GetMessage" -> HandlerGetMessage(r)
      [] op = "GetAttachment" -> HandlerGetAttachment(r)
      [] op = "UploadFile" -> HandlerUploadAttachment(r)
      [] OTHER -> NoResponse

----------------------------------------------------------------------------
(* Requests: one frame per goroutine serving a request *)

Frame(op, user, cid, req, pc, expect) ==
    [pc |-> pc, op |-> op, user |-> user, cid |-> cid, req |-> req,
     conv |-> NilConv, msg |-> NilMsg, att |-> NilAtt, list |-> <<>>,
     res |-> NoResult, resp |-> NoResponse, io |-> <<>>, expect |-> expect,
     prior |-> NoResult, now |-> 0]

IdleFrame == Frame("none", "", NoSuchId, <<>>, "idle", "none")

\* the collaborator calls a request has made so far, with their outcomes
Log(f, call, out) == [f EXCEPT !.io = Append(@, [call |-> call, out |-> out])]

\* the operation returns r to the handler, which answers the client
Done(f, r) ==
    [f EXCEPT !.pc = "done", !.res = r, !.resp = Respond(f.op, r),
              !.conv = NilConv, !.msg = NilMsg, !.att = NilAtt,
              !.list = <<>>]

Idle(q) == procs[q].pc = "idle"
InFlight(q) == procs[q].pc \notin {"idle", "done"}

\* whether collaborator calls may fail in this run
CacheFaults == IF wiring.cacheFaults THEN BOOLEAN ELSE {FALSE}
StoreFaults == IF wiring.storeFaults THEN BOOLEAN ELSE {FALSE}
EventFaults == IF wiring.eventFaults THEN BOOLEAN ELSE {FALSE}
FileFaults == IF wiring.fileFaults THEN BOOLEAN ELSE {FALSE}

\* ids a client can name: those of existing conversations, or an unknown one
Targets == DOMAIN conversations \cup {NoSuchId}

\* the cached copy is served without looking at its owner
CachedOwnedBy_Skipped(cached, userID) == TRUE

\* GetConversation line 365: cached.UserID == userID
CachedOwnedBy(cached, userID) == cached.userId = userID

\* the stored record is served without looking at its owner
StoredOwnedBy_Skipped(conversation, userID) == TRUE

\* GetConversation line 377: conversation.UserID != userID is refused
StoredOwnedBy(conversation, userID) == conversation.userId = userID

\* SendMessage drops the error of its GetConversation and carries on
AfterGetConversation_SendAnyway(f, r) ==
    CASE f.op = "GetConversation" -> Done(f, r)
      [] f.op = "SendMessage" -> [f EXCEPT !.pc = "sm_insert", !.conv = NilConv]
      [] f.op = "UpdateConversationStatus" /\ r.ok ->
            [f EXCEPT !.pc = "us_update", !.conv = r.val]
      [] f.op = "GetMessages" /\ r.ok ->
            [f EXCEPT !.pc = "ms_list", !.conv = NilConv]
      [] f.op \in {"GetMessage", "GetAttachment"} /\ r.ok ->
            [f EXCEPT !.pc = "gm_atts", !.conv = NilConv]
      [] OTHER -> Done(f, Fail(r.err))

\* where GetConversation's result r goes: back to the handler, or on in the
\* operation that called it (UpdateConversationStatus, SendMessage)
AfterGetConversation(f, r) ==
    CASE f.op = "GetConversation" -> Done(f, r)
      [] f.op = "UpdateConversationStatus" ->
            IF r.ok THEN [f EXCEPT !.pc = "us_update", !.conv = r.val]
            ELSE Done(f, Fail(r.err))
      [] f.op = "SendMessage" ->
            IF r.ok THEN [f EXCEPT !.pc = "sm_insert", !.conv = NilConv]
            ELSE Done(f, Fail(r.err))
      [] f.op = "GetMessages" ->
            IF r.ok THEN [f EXCEPT !.pc = "ms_list", !.conv = NilConv]
            ELSE Done(f, Fail(r.err))
      [] f.op \in {"GetMessage", "GetAttachment"} ->
            IF r.ok THEN [f EXCEPT !.pc = "gm_atts", !.conv = NilConv]
            ELSE Done(f, Fail(r.err))
      [] OTHER -> Done(f, r)

----------------------------------------------------------------------------
(* Clients call the service *)

Creating == {q \in DOMAIN procs : InFlight(q) /\ procs[q].op = "CreateConversation"}
Sending == {q \in DOMAIN procs : InFlight(q) /\ procs[q].op = "SendMessage"}
Attaching == {q \in DOMAIN procs : InFlight(q) /\ procs[q].op = "CreateAttachment"}
MessageTargets == DOMAIN messages \cup {NoSuchId}
AttachmentTargets == DOMAIN attachments \cup {NoSuchId}

CallCreateConversation(p, channels) ==
    /\ Idle(p)
    /\ Cardinality(DOMAIN conversations) + Cardinality(Creating) < wiring.maxConvs
    /\ \E u \in Users, ch \in channels :
         procs' = [procs EXCEPT ![p] =
            Frame("CreateConversation", u, NoSuchId, [channel |-> ch],
                  "cc_insert", "none")]
    /\ UNCHANGED <<conversations, messages, attachments, cache, events, clock,
                   settled, wiring, files, ttl>>

CallGetConversation(p) ==
    /\ Idle(p)
    /\ \E id \in Targets, u \in Users :
         procs' = [procs EXCEPT ![p] =
            Frame("GetConversation", u, id, <<>>, "gc_cache",
                  IF id \in DOMAIN settled THEN settled[id] ELSE "none")]
    /\ UNCHANGED <<conversations, messages, attachments, cache, events, clock,
                   settled, wiring, files, ttl>>

CallGetConversations(p) ==
    /\ Idle(p)
    /\ \E u \in Users, filters \in ConversationFilters :
         procs' = [procs EXCEPT ![p] =
            Frame("GetConversations", u, NoSuchId, filters, "gcs_list", "none")]
    /\ UNCHANGED <<conversations, messages, attachments, cache, events, clock,
                   settled, wiring, files, ttl>>

\* history: a status update on id starts, so nothing is settled about id until
\* an update that overlaps no other has returned
CallUpdateConversationStatus(p) ==
    /\ Idle(p)
    /\ \E id \in Targets, st \in Statuses, u \in Users :
         LET overlap == \E q \in DOMAIN procs \ {p} :
                            /\ InFlight(q)
                            /\ procs[q].op = "UpdateConversationStatus"
                            /\ procs[q].cid = id
         IN /\ procs' = [q \in DOMAIN procs |->
                  IF q = p
                  THEN Frame("UpdateConversationStatus", u, id,
                             [status |-> st], "gc_cache",
                             IF overlap THEN "none" ELSE "clean")
                  ELSE IF InFlight(q) /\ procs[q].cid = id
                       THEN [procs[q] EXCEPT !.expect = "none"]
                       ELSE procs[q]]
            /\ settled' = [k \in DOMAIN settled |->
                              IF k = id THEN "none" ELSE settled[k]]
    /\ UNCHANGED <<conversations, messages, attachments, cache, events, clock,
                   wiring, files, ttl>>

CallSendMessage(p) ==
    /\ Idle(p)
    /\ Cardinality(DOMAIN messages) + Cardinality(Sending) < wiring.maxMsgs
    /\ \E id \in Targets, u \in Users, st \in SenderTypes, c \in Contents,
          ct \in ContentTypes, md \in Metadatas :
         procs' = [procs EXCEPT ![p] =
            Frame("SendMessage", u, id,
                  [senderType |-> st, content |-> c, contentType |-> ct,
                   metadata |-> md],
                  "gc_cache", "none")]
    /\ UNCHANGED <<conversations, messages, attachments, cache, events, clock,
                   settled, wiring, files, ttl>>

\* the JSON keys of SendMessageRequest tagged binding:"required"
RequiredOfSendMessageRequest == {"conversation_id", "sender_type", "sender_id", "content", "content_type"}

\* the keys of the README's example body
ExampleSendMessageKeys == {"sender_type", "content", "content_type", "metadata"}

\* request bodies of POST /conversations/{id}/messages: the keys the JSON
\* document holds and their values; a key that is absent decodes to the zero
\* value of its field
SendMessageBodies ==
    {[present |-> ExampleSendMessageKeys, conversation_id |-> NoSuchId,
      sender_id |-> "", sender_type |-> st, content |-> c,
      content_type |-> ct, metadata |-> md] :
        st \in SenderTypes, c \in Contents, ct \in ContentTypes,
        md \in Metadatas}
    \cup
    {[present |-> ExampleSendMessageKeys \cup {"conversation_id", "sender_id"},
      conversation_id |-> id, sender_id |-> u, sender_type |-> st,
      content |-> c, content_type |-> ct, metadata |-> md] :
        id \in 1..MaxConvs, u \in Users, st \in SenderTypes, c \in Contents,
        ct \in ContentTypes, md \in Metadatas}
    \cup
    {[present |-> RequiredOfSendMessageRequest,
      conversation_id |-> id, sender_id |-> u, sender_type |-> st,
      content |-> c, content_type |-> ct, metadata |-> NilJSONB] :
        id \in 1..MaxConvs, u \in Users, st \in SenderTypes, c \in Contents,
        ct \in ContentTypes}

\* c.ShouldBindJSON(&req): decoding, then the validator, which refuses a
\* required field left at its zero value
ShouldBindJSON(body) == RequiredOfSendMessageRequest \subseteq body.present

\* what getUserIDFromContext returns for a request without a valid bearer
\* token
NoUser == ""

\* the sender id the body carries is passed on to the service
SenderOf_FromBody(userID, body) == body.sender_id

\* line 271: req.SenderID = userID
SenderOf(userID, body) == userID

\* MessagingHandler.SendMessage up to the call of the service: a request
\* whose token gives no user is answered 401; then the body is bound; then
\* the conversation id of the URL and the user of the token replace what
\* the body said
PostMessage(p) ==
    /\ Idle(p)
    /\ Cardinality(DOMAIN messages) + Cardinality(Sending) < wiring.maxMsgs
    /\ \E id \in Targets, u \in Users \cup {NoUser}, body \in SendMessageBodies :
         LET req == [senderType |-> body.sender_type, content |-> body.content,
                     contentType |-> body.content_type,
                     metadata |-> body.metadata, present |-> body.present,
                     token |-> u, body |-> body]
         IN procs' = [procs EXCEPT ![p] =
                IF u = NoUser
                THEN [Frame("SendMessage", u, id, req, "done", "none") EXCEPT
                        !.resp = Response(401, "UNAUTHORIZED", "Invalid token",
                                          <<>>)]
                ELSE IF ~ShouldBindJSON(body)
                THEN [Frame("SendMessage", u, id, req, "done", "none") EXCEPT
                        !.resp = Response(400, "INVALID_REQUEST",
                                          ErrRequiredField, <<>>)]
                ELSE Frame("SendMessage", SenderOf(u, body), id, req,
                           "gc_cache", "none")]
    /\ UNCHANGED <<conversations, messages, attachments, cache, events, clock,
                   settled, wiring, files, ttl>>

CallGetMessages(p) ==
    /\ Idle(p)
    /\ \E id \in Targets, u \in Users, pagination \in Paginations :
         procs' = [procs EXCEPT ![p] =
            Frame("GetMessages", u, id, pagination, "gc_cache", "none")]
    /\ UNCHANGED <<conversations, messages, attachments, cache, events, clock,
                   settled, wiring, files, ttl>>

CallGetMessage(p) ==
    /\ Idle(p)
    /\ \E mid \in MessageTargets, u \in Users :
         procs' = [procs EXCEPT ![p] =
            Frame("GetMessage", u, NoSuchId, [mid |-> mid], "gm_load", "none")]
    /\ UNCHANGED <<conversations, messages, attachments, cache, events, clock,
                   settled, wiring, files, ttl>>

CallGetAttachment(p) ==
    /\ Idle(p)
    /\ \E aid \in AttachmentTargets, u \in Users :
         procs' = [procs EXCEPT ![p] =
            Frame("GetAttachment", u, NoSuchId,
                  [aid |-> aid, mid |-> NoSuchId], "ga_load", "none")]
    /\ UNCHANGED <<conversations, messages, attachments, cache, events, clock,
                   settled, wiring, files, ttl>>

\* CreateAttachment takes no user id: any in-process caller may attach
CallCreateAttachment(p) ==
    /\ Idle(p)
    /\ Cardinality(DOMAIN attachments) + Cardinality(Attaching) < wiring.maxAtts
    /\ \E caller \in Users, mid \in MessageTargets,
          url \in Urls \cup DOMAIN files, type \in AttachmentTypes,
          size \in Sizes \cup {files[u].size : u \in DOMAIN files},
          filename \in Filenames :
         procs' = [procs EXCEPT ![p] =
            Frame("CreateAttachment", caller, NoSuchId,
                  [mid |-> mid, url |-> url, type |-> type, size |-> size,
                   filename |-> filename], "ca_insert", "none")]
    /\ UNCHANGED <<conversations, messages, attachments, cache, events, clock,
                   settled, wiring, files, ttl>>

\* the client that just got a conversation asks for it once more
CallGetConversationAgain(p) ==
    LET f == procs[p] IN
    /\ f.pc = "done"
    /\ f.op = "GetConversation"
    /\ f.res.ok
    /\ procs' = [procs EXCEPT ![p] =
            [Frame("GetConversation", f.user, f.cid, <<>>, "gc_cache",
                   IF f.cid \in DOMAIN settled THEN settled[f.cid] ELSE "none")
                EXCEPT !.prior = f.res]]
    /\ UNCHANGED <<conversations, messages, attachments, cache, events, clock,
                   settled, wiring, files, ttl>>

\* the client whose status update just succeeded asks for the conversation
CallGetConversationAfterUpdate(p) ==
    LET f == procs[p] IN
    /\ f.pc = "done"
    /\ f.op = "UpdateConversationStatus"
    /\ f.res.ok
    /\ procs' = [procs EXCEPT ![p] =
            [Frame("GetConversation", f.user, f.cid,
                   [updated |-> f.req.status, invalidation |-> f.io[Len(f.io)]],
                   "gc_cache",
                   IF f.cid \in DOMAIN settled THEN settled[f.cid] ELSE "none")
                EXCEPT !.prior = f.res]]
    /\ UNCHANGED <<conversations, messages, attachments, cache, events, clock,
                   settled, wiring, files, ttl>>

\* the client that just sent a message asks for the first page of its
\* conversation
CallGetMessagesAfterSend(p) ==
    LET f == procs[p] IN
    /\ f.pc = "done"
    /\ f.op = "SendMessage"
    /\ f.res.ok
    /\ \E pagination \in {q \in Paginations : q.offset = 0 /\ q.limit >= 1} :
         procs' = [procs EXCEPT ![p] =
            [Frame("GetMessages", f.user, f.cid, pagination, "gc_cache", "none")
                EXCEPT !.prior = f.res]]
    /\ UNCHANGED <<conversations, messages, attachments, cache, events, clock,
                   settled, wiring, files, ttl>>

\* the client that just sent a message asks for that message
CallGetMessageAfterSend(p) ==
    LET f == procs[p] IN
    /\ f.pc = "done"
    /\ f.op = "SendMessage"
    /\ f.res.ok
    /\ procs' = [procs EXCEPT ![p] =
            [Frame("GetMessage", f.user, NoSuchId,
                   [mid |-> f.res.val.id, sent |-> f.req, cid |-> f.cid],
                   "gm_load", "none")
                EXCEPT !.prior = f.res]]
    /\ UNCHANGED <<conversations, messages, attachments, cache, events, clock,
                   settled, wiring, files, ttl>>

Uploading == {q \in DOMAIN procs : InFlight(q) /\ procs[q].op = "UploadFile"}

\* UploadFile is given the content and, next to it, a Size field
CallUploadFile(p) ==
    /\ Idle(p)
    /\ Cardinality(DOMAIN files) + Cardinality(Uploading) < wiring.maxFiles
    /\ \E u \in Users, size \in ContentSizes, content \in ContentSizes,
          filename \in Filenames :
         procs' = [procs EXCEPT ![p] =
            Frame("UploadFile", u, NoSuchId,
                  [size |-> size, content |-> content, filename |-> filename,
                   url |-> ""], "uf_create", "none")]
    /\ UNCHANGED <<conversations, messages, attachments, cache, events, clock,
                   settled, wiring, files, ttl>>

\* the client has its answer; the goroutine ends
Return(p) ==
    /\ procs[p].pc = "done"
    /\ procs' = [procs EXCEPT ![p] = IdleFrame]
    /\ UNCHANGED <<conversations, messages, attachments, cache, events, clock,
                   settled, wiring, files, ttl>>

----------------------------------------------------------------------------
(* messagingService.CreateConversation *)

CcInsert(p) ==
    LET f == procs[p]
        conversation == Conversation(NewID(conversations), f.user,
                            f.req.channel, ConversationStatusActive,
                            clock, clock)
    IN
    /\ f.pc = "cc_insert"
    /\ \E fail \in StoreFaults :
         IF fail
         THEN /\ procs' = [procs EXCEPT ![p] =
                    Done(Log(f, "conversations.create", "err"),
                         Fail(ErrCreateConversation))]
              /\ UNCHANGED <<conversations, settled>>
         ELSE /\ conversations' = ConvCreate(conversations, conversation)
              /\ settled' = settled @@ (conversation.id :> "none")
              /\ procs' = [procs EXCEPT ![p] =
                    Done(Log(f, "conversations.create", "ok"),
                         Ok(conversation))]
    /\ UNCHANGED <<messages, attachments, cache, events, clock, wiring, files, ttl>>

----------------------------------------------------------------------------
(* messagingService.GetConversations: the store query, nothing else *)

GcsList(p) ==
    LET f == procs[p] IN
    /\ f.pc = "gcs_list"
    /\ \E fail \in StoreFaults :
         IF fail
         THEN procs' = [procs EXCEPT ![p] =
                Done(Log(f, "conversations.list", "err"),
                     Fail(ErrGetConversations))]
         ELSE \E page \in ConvGetByUserID(conversations, f.user, f.req) :
                procs' = [procs EXCEPT ![p] =
                    Done(Log(f, "conversations.list", "ok"), Ok(page))]
    /\ UNCHANGED <<conversations, messages, attachments, cache, events, clock,
                   settled, wiring, files, ttl>>

----------------------------------------------------------------------------
(* messagingService.GetConversation: cache, then store, then cache fill *)

GcCache(p) ==
    LET f == procs[p] IN
    /\ f.pc = "gc_cache"
    /\ \E fail \in CacheFaults :
         LET got == CacheGetConversation(wiring.cache, cache, f.cid, fail)
             g == Log(f, "cache.get", got.out)
         IN procs' = [procs EXCEPT ![p] =
                IF got.out = "hit" /\ CachedOwnedBy(got.val, f.user)
                THEN AfterGetConversation(g, Ok(got.val))
                ELSE [g EXCEPT !.pc = "gc_store"]]
    /\ UNCHANGED <<conversations, messages, attachments, cache, events, clock,
                   settled, wiring, files, ttl>>

GcStore(p) ==
    LET f == procs[p] IN
    /\ f.pc = "gc_store"
    /\ \E fail \in StoreFaults :
         LET conversation == ConvGetByID(conversations, f.cid) IN
         procs' = [procs EXCEPT ![p] =
            IF fail
            THEN AfterGetConversation(Log(f, "conversations.get", "err"),
                                      Fail(ErrGetConversation))
            ELSE IF conversation = NilConv
            THEN AfterGetConversation(Log(f, "conversations.get", "norows"),
                                      Fail(ErrNoRowsConversation))
            ELSE IF ~StoredOwnedBy(conversation, f.user)
            THEN AfterGetConversation(Log(f, "conversations.get", "ok"),
                                      Fail(ErrAccessDenied))
            ELSE [Log(f, "conversations.get", "ok") EXCEPT
                    !.pc = "gc_set", !.conv = conversation]]
    /\ UNCHANGED <<conversations, messages, attachments, cache, events, clock,
                   settled, wiring, files, ttl>>

GcSet(p) ==
    LET f == procs[p] IN
    /\ f.pc = "gc_set"
    /\ \E fail \in CacheFaults :
         /\ cache' = CacheSetConversation(wiring.cache, cache, f.conv, fail)
         /\ ttl' = ExpirationAfterSet(wiring.cache, ttl, f.conv.id, fail)
         /\ procs' = [procs EXCEPT ![p] =
                AfterGetConversation(
                    Log(f, "cache.set", IF fail THEN "err" ELSE "ok"),
                    Ok(f.conv))]
    /\ UNCHANGED <<conversations, messages, attachments, events, clock,
                   settled, wiring, files>>

----------------------------------------------------------------------------
(* messagingService.UpdateConversationStatus, after its GetConversation *)

\* the update's error is dropped and the operation carries on
UpdateFailed_Ignored(out) == FALSE

\* line 407: err != nil after conversationRepo.Update
UpdateFailed(out) == out # "ok"

UsUpdate(p) ==
    LET f == procs[p]
        conversation == [f.conv EXCEPT !.status = f.req.status,
                                       !.updatedAt = clock]
    IN
    /\ f.pc = "us_update"
    /\ \E fail \in StoreFaults :
         LET out == IF fail THEN "err"
                    ELSE IF conversation.id \notin DOMAIN conversations
                    THEN "norows" ELSE "ok"
             g == Log(f, "conversations.update", out)
         IN /\ conversations' =
                    IF out = "ok"
                    THEN ConvUpdate(conversations, conversation, clock)
                    ELSE conversations
            /\ procs' = [procs EXCEPT ![p] =
                    IF UpdateFailed(out)
                    THEN Done(g, Fail(IF out = "norows" THEN ErrUpdateNoRows
                                      ELSE ErrUpdateConversation))
                    ELSE [g EXCEPT !.pc = "us_delete", !.conv = conversation]]
    /\ UNCHANGED <<messages, attachments, cache, events, clock, settled,
                   wiring, files, ttl>>

\* The same UPDATE in the two steps PostgreSQL takes for it, for the runs in
\* which two statements can be in progress at once. db.ExecContext runs the
\* statement as a transaction of its own; NOW() in the trigger is the time
\* at which that transaction started, not the time at which the row is
\* written.
\* UsExec: time.Now() is read (line 403), the statement is sent and its
\* transaction starts
UsExec(p) ==
    LET f == procs[p]
        conversation == [f.conv EXCEPT !.status = f.req.status,
                                       !.updatedAt = clock]
    IN
    /\ f.pc = "us_update"
    /\ \E fail \in StoreFaults :
         procs' = [procs EXCEPT ![p] =
            IF fail
            THEN Done(Log(f, "conversations.update", "err"),
                      Fail(ErrUpdateConversation))
            ELSE [f EXCEPT !.pc = "us_row", !.conv = conversation,
                           !.now = clock]]
    /\ UNCHANGED <<conversations, messages, attachments, cache, events, clock,
                   settled, wiring, files, ttl>>

\* UsRow: the statement has the row's lock (a statement that finds the row
\* locked by another waits for it and then writes the row as that one left
\* it); the trigger fires with the NOW() of this transaction and the row is
\* written
UsRow(p) ==
    LET f == procs[p]
        out == IF f.conv.id \notin DOMAIN conversations THEN "norows" ELSE "ok"
        g == [Log(f, "conversations.update", out) EXCEPT !.now = 0]
    IN
    /\ f.pc = "us_row"
    /\ conversations' =
            IF out = "ok" THEN ConvUpdate(conversations, f.conv, f.now)
            ELSE conversations
    /\ procs' = [procs EXCEPT ![p] =
            IF UpdateFailed(out)
            THEN Done(g, Fail(ErrUpdateNoRows))
            ELSE [g EXCEPT !.pc = "us_delete"]]
    /\ UNCHANGED <<messages, attachments, cache, events, clock, settled,
                   wiring, files, ttl>>

\* the invalidation's error is returned to the caller
AfterCacheDelete_Propagates(f, fail) ==
    IF fail THEN Done(f, Fail("failed to invalidate cache")) ELSE Done(f, Ok(<<>>))

\* lines 412-422: the error of DeleteConversation is discarded, nil returned
AfterCacheDelete(f, fail) == Done(f, Ok(<<>>))

\* history: the update is settled when it returns success having overlapped
\* no other update
UsDelete(p) ==
    LET f == procs[p] IN
    /\ f.pc = "us_delete"
    /\ \E fail \in CacheFaults :
         /\ cache' = CacheDeleteConversation(wiring.cache, cache, f.cid, fail)
         /\ ttl' = ExpirationAfterDelete(ttl, cache')
         /\ procs' = [procs EXCEPT ![p] =
                AfterCacheDelete(
                    Log(f, "cache.delete", IF fail THEN "err" ELSE "ok"), fail)]
         /\ settled' = [k \in DOMAIN settled |->
                IF k = f.cid /\ f.expect = "clean"
                THEN f.req.status ELSE settled[k]]
    /\ UNCHANGED <<conversations, messages, attachments, events, clock,
                   wiring, files>>

----------------------------------------------------------------------------
(* messagingService.SendMessage, after its GetConversation *)

\* messages.conversation_id REFERENCES conversations(id)
MessageForeignKeyHolds(message) == message.conversationId \in DOMAIN conversations

\* the insert's error is dropped and the operation carries on
InsertFailed_Ignored(out) == FALSE

\* line 443: err != nil after messageRepo.Create
InsertFailed(out) == out # "ok"

SmInsert(p) ==
    LET f == procs[p]
        message == Message(NewID(messages), f.cid, f.req.senderType, f.user,
                           f.req.content, f.req.contentType, f.req.metadata,
                           clock)
    IN
    /\ f.pc = "sm_insert"
    /\ \E fail \in StoreFaults :
         LET out == IF fail \/ ~MessageForeignKeyHolds(message)
                    THEN "err" ELSE "ok"
             g == Log(f, "messages.create", out)
         IN /\ messages' = IF out = "ok" THEN MsgCreate(messages, message)
                           ELSE messages
            /\ procs' = [procs EXCEPT ![p] =
                    IF InsertFailed(out)
                    THEN Done(g, Fail(ErrCreateMessage))
                    ELSE [g EXCEPT !.pc = "sm_publish", !.msg = message]]
    /\ UNCHANGED <<conversations, attachments, cache, events, clock, settled,
                   wiring, files, ttl>>

\* the publish error is returned to the caller instead of the message
AfterPublish_Propagates(f, fail) ==
    IF fail THEN Done(f, Fail("failed to publish message event"))
    ELSE Done(f, Ok(f.msg))

\* lines 457-469: the error of PublishMessageEvent is logged and the message
\* returned with a nil error
AfterPublish(f, fail) == Done(f, Ok(f.msg))

SmPublish(p) ==
    LET f == procs[p] IN
    /\ f.pc = "sm_publish"
    /\ \E fail \in EventFaults :
         /\ events' = PublishMessageEvent(wiring.events, events,
                                          MessageEvent(f.msg, clock), fail)
         /\ procs' = [procs EXCEPT ![p] =
                AfterPublish(
                    Log(f, "events.publish", IF fail THEN "err" ELSE "ok"),
                    fail)]
    /\ UNCHANGED <<conversations, messages, attachments, cache, clock,
                   settled, wiring, files, ttl>>

----------------------------------------------------------------------------
(* messagingService.GetMessages, after its GetConversation *)

MsList(p) ==
    LET f == procs[p] IN
    /\ f.pc = "ms_list"
    /\ \E fail \in StoreFaults :
         IF fail
         THEN procs' = [procs EXCEPT ![p] =
                Done(Log(f, "messages.list", "err"), Fail(ErrGetMessages))]
         ELSE \E page \in MsgGetByConversationID(messages, f.cid, f.req) :
                procs' = [procs EXCEPT ![p] =
                    IF Len(page) = 0
                    THEN Done(Log(f, "messages.list", "ok"), Ok(page))
                    ELSE [Log(f, "messages.list", "ok") EXCEPT
                            !.pc = "ms_atts", !.list = page]]
    /\ UNCHANGED <<conversations, messages, attachments, cache, events, clock,
                   settled, wiring, files, ttl>>

\* a failed load of attachments ends the call with the error
AfterAttachmentsLoaded_Aborts(f, list, i, fail) ==
    IF fail THEN Done(f, Fail(ErrGetMessages))
    ELSE IF i = Len(list) THEN Done(f, Ok(list))
    ELSE [f EXCEPT !.list = list]

\* lines 485-494: after message i the loop goes on to the next message,
\* whether the load failed or not, and returns the list after the last one
AfterAttachmentsLoaded(f, list, i, fail) ==
    IF i = Len(list) THEN Done(f, Ok(list))
    ELSE [f EXCEPT !.list = list]

\* one turn of the loop over messages: the first message not yet visited
\* gets its attachments, or is left without them when the load fails
MsAtts(p) ==
    LET f == procs[p]
        i == Len(SelectSeq(f.io, LAMBDA e : e.call = "attachments.list")) + 1
    IN
    /\ f.pc = "ms_atts"
    /\ \E fail \in StoreFaults :
         \E loaded \in AttGetByMessageID(attachments, f.list[i].id) :
            LET list == IF fail THEN f.list
                        ELSE [f.list EXCEPT ![i].attachments = loaded]
                g == Log(f, "attachments.list", IF fail THEN "err" ELSE "ok")
            IN procs' = [procs EXCEPT ![p] =
                    AfterAttachmentsLoaded(g, list, i, fail)]
    /\ UNCHANGED <<conversations, messages, attachments, cache, events, clock,
                   settled, wiring, files, ttl>>

----------------------------------------------------------------------------
(* messagingService.GetMessage, alone or called by GetAttachment *)

GmLoad(p) ==
    LET f == procs[p]
        message == MsgGetByID(messages, f.req.mid)
    IN
    /\ f.pc = "gm_load"
    /\ \E fail \in StoreFaults :
         procs' = [procs EXCEPT ![p] =
            IF fail
            THEN Done(Log(f, "messages.get", "err"), Fail(ErrGetMessage))
            ELSE IF message = NilMsg
            THEN Done(Log(f, "messages.get", "norows"), Fail(ErrNoRowsMessage))
            ELSE [Log(f, "messages.get", "ok") EXCEPT
                    !.pc = "gc_cache", !.msg = message,
                    !.cid = message.conversationId]]
    /\ UNCHANGED <<conversations, messages, attachments, cache, events, clock,
                   settled, wiring, files, ttl>>

GmAtts(p) ==
    LET f == procs[p] IN
    /\ f.pc = "gm_atts"
    /\ \E fail \in StoreFaults :
         \E loaded \in AttGetByMessageID(attachments, f.req.mid) :
            LET message == IF fail THEN f.msg
                           ELSE [f.msg EXCEPT !.attachments = loaded]
                g == Log(f, "attachments.list", IF fail THEN "err" ELSE "ok")
            IN procs' = [procs EXCEPT ![p] =
                    IF f.op = "GetAttachment" THEN Done(g, Ok(f.att))
                    ELSE Done(g, Ok(message))]
    /\ UNCHANGED <<conversations, messages, attachments, cache, events, clock,
                   settled, wiring, files, ttl>>

----------------------------------------------------------------------------
(* messagingService.GetAttachment and CreateAttachment *)

GaLoad(p) ==
    LET f == procs[p]
        attachment == AttGetByID(attachments, f.req.aid)
    IN
    /\ f.pc = "ga_load"
    /\ \E fail \in StoreFaults :
         procs' = [procs EXCEPT ![p] =
            IF fail
            THEN Done(Log(f, "attachments.get", "err"), Fail(ErrGetAttachment))
            ELSE IF attachment = NilAtt
            THEN Done(Log(f, "attachments.get", "norows"),
                      Fail(ErrNoRowsAttachment))
            ELSE [Log(f, "attachments.get", "ok") EXCEPT
                    !.pc = "gm_load", !.att = attachment,
                    !.req.mid = attachment.messageId]]
    /\ UNCHANGED <<conversations, messages, attachments, cache, events, clock,
                   settled, wiring, files, ttl>>

\* attachments.message_id REFERENCES messages(id)
AttachmentForeignKeyHolds(attachment) == attachment.messageId \in DOMAIN messages

\* the caller must own the conversation of the message, or nothing is written
CaInsert_OwnerOnly(p) ==
    LET f == procs[p]
        attachment == Attachment(NewID(attachments), f.req.mid, f.req.url,
                                 f.req.type, f.req.size, f.req.filename, clock)
        owned == /\ f.req.mid \in DOMAIN messages
                 /\ messages[f.req.mid].conversationId \in DOMAIN conversations
                 /\ conversations[messages[f.req.mid].conversationId].userId
                        = f.user
    IN
    /\ f.pc = "ca_insert"
    /\ IF ~owned
       THEN /\ procs' = [procs EXCEPT ![p] = Done(f, Fail(ErrAccessDenied))]
            /\ UNCHANGED attachments
       ELSE /\ attachments' = AttCreate(attachments, attachment)
            /\ procs' = [procs EXCEPT ![p] =
                    Done(Log(f, "attachments.create", "ok"), Ok(attachment))]
    /\ UNCHANGED <<conversations, messages, cache, events, clock, settled,
                   wiring, files, ttl>>

\* CreateAttachment takes no user id: whoever calls it, the row is built and
\* handed to the store
CaInsert(p) ==
    LET f == procs[p]
        attachment == Attachment(NewID(attachments), f.req.mid, f.req.url,
                                 f.req.type, f.req.size, f.req.filename, clock)
    IN
    /\ f.pc = "ca_insert"
    /\ \E fail \in StoreFaults :
         IF fail \/ ~AttachmentForeignKeyHolds(attachment)
         THEN /\ procs' = [procs EXCEPT ![p] =
                    Done(Log(f, "attachments.create", "err"),
                         Fail(ErrCreateAttachment))]
              /\ UNCHANGED attachments
         ELSE /\ attachments' = AttCreate(attachments, attachment)
              /\ procs' = [procs EXCEPT ![p] =
                    Done(Log(f, "attachments.create", "ok"), Ok(attachment))]
    /\ UNCHANGED <<conversations, messages, cache, events, clock, settled,
                   wiring, files, ttl>>

----------------------------------------------------------------------------
(* localFileService.UploadFile *)

\* the Size field is not looked at
TooLarge_Unchecked(size, max) == FALSE

\* line 61: req.Size > s.config.MaxFileSize
TooLarge(size, max) == size > max

\* the MIME type of the extension decides; ".png" is an image type
determineFileType(filename) == IF filename = "a.png" THEN "image" ELSE "file"

\* the size check, MkdirAll and os.Create: an empty file under a new name
UfCreate(p) ==
    LET f == procs[p]
        url == UploadUrls[Cardinality(DOMAIN files) + 1]
    IN
    /\ f.pc = "uf_create"
    /\ IF TooLarge(f.req.size, wiring.maxFileSize)
       THEN /\ procs' = [procs EXCEPT ![p] = Done(f, Fail(ErrFileTooLarge))]
            /\ UNCHANGED files
       ELSE \E mkdirFails, createFails \in FileFaults :
              IF mkdirFails
              THEN /\ procs' = [procs EXCEPT ![p] =
                        Done(Log(f, "files.mkdir", "err"),
                             Fail(ErrUploadDirectory))]
                   /\ UNCHANGED files
              ELSE IF createFails
              THEN /\ procs' = [procs EXCEPT ![p] =
                        Done(Log(f, "files.create", "err"), Fail(ErrCreateFile))]
                   /\ UNCHANGED files
              ELSE /\ files' = files @@ (url :> [user |-> f.user, size |-> 0])
                   /\ procs' = [procs EXCEPT ![p] =
                        [Log(f, "files.create", "ok") EXCEPT
                            !.pc = "uf_copy", !.req.url = url]]
    /\ UNCHANGED <<conversations, messages, attachments, cache, events, clock,
                   settled, wiring, ttl>>

\* io.Copy writes the whole content, or fails after some of it; on failure
\* os.Remove is called and its own error ignored
UfCopy(p) ==
    LET f == procs[p] IN
    /\ f.pc = "uf_copy"
    /\ \E fail \in FileFaults :
         IF fail
         THEN \E written \in 0..f.req.content, removeFails \in FileFaults :
                /\ files' = IF removeFails
                            THEN [files EXCEPT ![f.req.url].size = written]
                            ELSE [u \in DOMAIN files \ {f.req.url} |-> files[u]]
                /\ procs' = [procs EXCEPT ![p] =
                        Done(Log(f, "files.copy", "err"), Fail(ErrWriteFile))]
         ELSE /\ files' = [files EXCEPT ![f.req.url].size = f.req.content]
              /\ procs' = [procs EXCEPT ![p] =
                    Done(Log(f, "files.copy", "ok"),
                         Ok([url |-> f.req.url, filename |-> f.req.filename,
                             size |-> f.req.content,
                             type |-> determineFileType(f.req.filename)]))]
    /\ UNCHANGED <<conversations, messages, attachments, cache, events, clock,
                   settled, wiring, ttl>>

----------------------------------------------------------------------------
(* Environment *)

\* time passes
Tick ==
    /\ clock < MaxClock
    /\ clock' = clock + 1
    /\ UNCHANGED <<conversations, messages, attachments, cache, events, procs,
                   settled, wiring, files, ttl>>

\* Redis drops a conversation key whose expiration has run out, in the runs
\* that do not follow how much time each key has left
Expire ==
    /\ \E id \in DOMAIN cache :
         /\ cache' = [k \in DOMAIN cache \ {id} |-> cache[k]]
         /\ ttl' = ExpirationAfterDelete(ttl, cache')
    /\ UNCHANGED <<conversations, messages, attachments, events, clock, procs,
                   settled, wiring, files>>

\* ten minutes pass in Redis: every key with an expiration has that much
\* less to live
Age ==
    /\ \E k \in DOMAIN ttl : ttl[k] > 0
    /\ ttl' = [k \in DOMAIN ttl |-> IF ttl[k] > 0 THEN ttl[k] - 1 ELSE ttl[k]]
    /\ UNCHANGED <<conversations, messages, attachments, cache, events, clock,
                   procs, settled, wiring, files>>

\* Redis drops the key id once its expiration has run out
ExpireDue(id) ==
    /\ id \in DOMAIN cache
    /\ ttl[id] = 0
    /\ cache' = [k \in DOMAIN cache \ {id} |-> cache[k]]
    /\ ttl' = ExpirationAfterDelete(ttl, cache')
    /\ UNCHANGED <<conversations, messages, attachments, events, clock, procs,
                   settled, wiring, files>>

----------------------------------------------------------------------------
(* Specification: requests served one at a time, with Redis for cache and  *)
(* events, every store, cache and publish call able to fail                *)

Init ==
    /\ conversations = <<>>
    /\ messages = <<>>
    /\ attachments = <<>>
    /\ cache = <<>>
    /\ events = <<>>
    /\ clock = 0
    /\ procs = [p \in SeqProcs |-> IdleFrame]
    /\ settled = <<>>
    /\ files = <<>>
    /\ ttl = <<>>
    /\ wiring = [cache |-> "redis", events |-> "redis", cacheFaults |-> TRUE,
                 storeFaults |-> TRUE, eventFaults |-> TRUE,
                 maxConvs |-> MaxConvs, maxMsgs |-> MaxMsgs,
                 maxAtts |-> MaxAtts]

Next ==
    \/ \E p \in DOMAIN procs : CallCreateConversation(p, Channels)
    \/ \E p \in DOMAIN procs : CallGetConversation(p)
    \/ \E p \in DOMAIN procs : CallUpdateConversationStatus(p)
    \/ \E p \in DOMAIN procs : CallSendMessage(p)
    \/ \E p \in DOMAIN procs : CallGetMessages(p)
    \/ \E p \in DOMAIN procs : CallGetMessage(p)
    \/ \E p \in DOMAIN procs : CallGetAttachment(p)
    \/ \E p \in DOMAIN procs : CallCreateAttachment(p)
    \/ \E p \in DOMAIN procs : CallGetConversationAgain(p)
    \/ \E p \in DOMAIN procs : CcInsert(p)
    \/ \E p \in DOMAIN procs : GcCache(p)
    \/ \E p \in DOMAIN procs : GcStore(p)
    \/ \E p \in DOMAIN procs : GcSet(p)
    \/ \E p \in DOMAIN procs : UsUpdate(p)
    \/ \E p \in DOMAIN procs : UsDelete(p)
    \/ \E p \in DOMAIN procs : SmInsert(p)
    \/ \E p \in DOMAIN procs : SmPublish(p)
    \/ \E p \in DOMAIN procs : MsList(p)
    \/ \E p \in DOMAIN procs : MsAtts(p)
    \/ \E p \in DOMAIN procs : GmLoad(p)
    \/ \E p \in DOMAIN procs : GmAtts(p)
    \/ \E p \in DOMAIN procs : GaLoad(p)
    \/ \E p \in DOMAIN procs : CaInsert(p)
    \/ \E p \in DOMAIN procs : Return(p)
    \/ Tick
    \/ Expire

Spec == Init /\ [][Next]_vars

----------------------------------------------------------------------------
(* Specification: two requests on conversations and messages in flight at  *)
(* once, their store, cache and publish calls interleaved; no call fails   *)

InitConc ==
    /\ conversations = <<>>
    /\ messages = <<>>
    /\ attachments = <<>>
    /\ cache = <<>>
    /\ events = <<>>
    /\ clock = 0
    /\ procs = [p \in Procs |-> IdleFrame]
    /\ settled = <<>>
    /\ files = <<>>
    /\ ttl = <<>>
    /\ wiring = [cache |-> "redis", events |-> "redis", cacheFaults |-> FALSE,
                 storeFaults |-> FALSE, eventFaults |-> FALSE,
                 maxConvs |-> MaxConvs, maxMsgs |-> MaxMsgs,
                 maxAtts |-> MaxAtts]

NextConc ==
    \/ \E p \in DOMAIN procs : CallCreateConversation(p, {"web"})
    \/ \E p \in DOMAIN procs : CallGetConversation(p)
    \/ \E p \in DOMAIN procs : CallUpdateConversationStatus(p)
    \/ \E p \in DOMAIN procs : CallSendMessage(p)
    \/ \E p \in DOMAIN procs : CcInsert(p)
    \/ \E p \in DOMAIN procs : GcCache(p)
    \/ \E p \in DOMAIN procs : GcStore(p)
    \/ \E p \in DOMAIN procs : GcSet(p)
    \/ \E p \in DOMAIN procs : UsUpdate(p)
    \/ \E p \in DOMAIN procs : UsDelete(p)
    \/ \E p \in DOMAIN procs : SmInsert(p)
    \/ \E p \in DOMAIN procs : SmPublish(p)
    \/ \E p \in DOMAIN procs : Return(p)
    \/ Expire

SpecConc == InitConc /\ [][NextConc]_vars

----------------------------------------------------------------------------
(* Specification: requests served one at a time that fill a conversation   *)
(* with messages and attachments and page through it; store calls and      *)
(* publish calls can fail                                                  *)

InitMsgs ==
    /\ conversations = <<>>
    /\ messages = <<>>
    /\ attachments = <<>>
    /\ cache = <<>>
    /\ events = <<>>
    /\ clock = 0
    /\ procs = [p \in SeqProcs |-> IdleFrame]
    /\ settled = <<>>
    /\ files = <<>>
    /\ ttl = <<>>
    /\ wiring = [cache |-> "redis", events |-> "redis", cacheFaults |-> FALSE,
                 storeFaults |-> TRUE, eventFaults |-> TRUE,
                 maxConvs |-> MaxConvs, maxMsgs |-> MaxPageMsgs,
                 maxAtts |-> MaxPageAtts]

NextMsgs ==
    \/ \E p \in DOMAIN procs : CallCreateConversation(p, {"web"})
    \/ \E p \in DOMAIN procs : CallSendMessage(p)
    \/ \E p \in DOMAIN procs : CallGetMessages(p)
    \/ \E p \in DOMAIN procs : CallGetMessagesAfterSend(p)
    \/ \E p \in DOMAIN procs : CallCreateAttachment(p)
    \/ \E p \in DOMAIN procs : CcInsert(p)
    \/ \E p \in DOMAIN procs : GcCache(p)
    \/ \E p \in DOMAIN procs : GcStore(p)
    \/ \E p \in DOMAIN procs : GcSet(p)
    \/ \E p \in DOMAIN procs : SmInsert(p)
    \/ \E p \in DOMAIN procs : SmPublish(p)
    \/ \E p \in DOMAIN procs : MsList(p)
    \/ \E p \in DOMAIN procs : MsAtts(p)
    \/ \E p \in DOMAIN procs : CaInsert(p)
    \/ \E p \in DOMAIN procs : Return(p)
    \/ Tick

SpecMsgs == InitMsgs /\ [][NextMsgs]_vars

----------------------------------------------------------------------------
(* Specification: requests served one at a time that create conversations, *)
(* change their status, read them back and list them; store calls can fail *)

InitCreate ==
    /\ conversations = <<>>
    /\ messages = <<>>
    /\ attachments = <<>>
    /\ cache = <<>>
    /\ events = <<>>
    /\ clock = 0
    /\ procs = [p \in SeqProcs |-> IdleFrame]
    /\ settled = <<>>
    /\ files = <<>>
    /\ ttl = <<>>
    /\ wiring = [cache |-> "redis", events |-> "redis", cacheFaults |-> FALSE,
                 storeFaults |-> TRUE, eventFaults |-> FALSE,
                 maxConvs |-> MaxCreated, maxMsgs |-> MaxMsgs,
                 maxAtts |-> MaxAtts]

NextCreate ==
    \/ \E p \in DOMAIN procs : CallCreateConversation(p, Channels)
    \/ \E p \in DOMAIN procs : CallGetConversations(p)
    \/ \E p \in DOMAIN procs : CallUpdateConversationStatus(p)
    \/ \E p \in DOMAIN procs : CcInsert(p)
    \/ \E p \in DOMAIN procs : GcsList(p)
    \/ \E p \in DOMAIN procs : GcCache(p)
    \/ \E p \in DOMAIN procs : GcStore(p)
    \/ \E p \in DOMAIN procs : GcSet(p)
    \/ \E p \in DOMAIN procs : UsUpdate(p)
    \/ \E p \in DOMAIN procs : UsDelete(p)
    \/ \E p \in DOMAIN procs : Return(p)
    \/ Tick

SpecCreate == InitCreate /\ [][NextCreate]_vars

----------------------------------------------------------------------------
(* Specification: two requests in flight at once that create a conversation *)
(* and send messages to it, their store, cache and publish calls            *)
(* interleaved; no call fails                                               *)

InitSend ==
    /\ conversations = <<>>
    /\ messages = <<>>
    /\ attachments = <<>>
    /\ cache = <<>>
    /\ events = <<>>
    /\ clock = 0
    /\ procs = [p \in Procs |-> IdleFrame]
    /\ settled = <<>>
    /\ files = <<>>
    /\ ttl = <<>>
    /\ wiring = [cache |-> "redis", events |-> "redis", cacheFaults |-> FALSE,
                 storeFaults |-> FALSE, eventFaults |-> FALSE,
                 maxConvs |-> MaxConvs, maxMsgs |-> MaxPageMsgs,
                 maxAtts |-> MaxAtts]

NextSend ==
    \/ \E p \in DOMAIN procs : CallCreateConversation(p, {"web"})
    \/ \E p \in DOMAIN procs : CallSendMessage(p)
    \/ \E p \in DOMAIN procs : CcInsert(p)
    \/ \E p \in DOMAIN procs : GcCache(p)
    \/ \E p \in DOMAIN procs : GcStore(p)
    \/ \E p \in DOMAIN procs : GcSet(p)
    \/ \E p \in DOMAIN procs : SmInsert(p)
    \/ \E p \in DOMAIN procs : SmPublish(p)
    \/ \E p \in DOMAIN procs : Return(p)

SpecSend == InitSend /\ [][NextSend]_vars

----------------------------------------------------------------------------
(* Specification: requests served one at a time that upload files and      *)
(* attach them to the messages of a conversation; file system calls can    *)
(* fail                                                                    *)

InitFiles ==
    /\ conversations = <<>>
    /\ messages = <<>>
    /\ attachments = <<>>
    /\ cache = <<>>
    /\ events = <<>>
    /\ clock = 0
    /\ procs = [p \in SeqProcs |-> IdleFrame]
    /\ settled = <<>>
    /\ files = <<>>
    /\ ttl = <<>>
    /\ wiring = [cache |-> "redis", events |-> "redis", cacheFaults |-> FALSE,
                 storeFaults |-> FALSE, eventFaults |-> FALSE,
                 fileFaults |-> TRUE,
                 maxConvs |-> MaxConvs, maxMsgs |-> MaxMsgs,
                 maxAtts |-> MaxAtts, maxFiles |-> MaxFiles,
                 maxFileSize |-> MaxFileSize]

NextFiles ==
    \/ \E p \in DOMAIN procs : CallCreateConversation(p, {"web"})
    \/ \E p \in DOMAIN procs : CallSendMessage(p)
    \/ \E p \in DOMAIN procs : CallUploadFile(p)
    \/ \E p \in DOMAIN procs : CallCreateAttachment(p)
    \/ \E p \in DOMAIN procs : CcInsert(p)
    \/ \E p \in DOMAIN procs : GcCache(p)
    \/ \E p \in DOMAIN procs : GcStore(p)
    \/ \E p \in DOMAIN procs : GcSet(p)
    \/ \E p \in DOMAIN procs : SmInsert(p)
    \/ \E p \in DOMAIN procs : SmPublish(p)
    \/ \E p \in DOMAIN procs : UfCreate(p)
    \/ \E p \in DOMAIN procs : UfCopy(p)
    \/ \E p \in DOMAIN procs : CaInsert(p)
    \/ \E p \in DOMAIN procs : Return(p)

SpecFiles == InitFiles /\ [][NextFiles]_vars

----------------------------------------------------------------------------
(* Specification: messages posted over HTTP, one request at a time, to the *)
(* conversations of both channels; store calls can fail                    *)

InitPost ==
    /\ conversations = <<>>
    /\ messages = <<>>
    /\ attachments = <<>>
    /\ cache = <<>>
    /\ events = <<>>
    /\ clock = 0
    /\ procs = [p \in SeqProcs |-> IdleFrame]
    /\ settled = <<>>
    /\ files = <<>>
    /\ ttl = <<>>
    /\ wiring = [cache |-> "redis", events |-> "redis", cacheFaults |-> FALSE,
                 storeFaults |-> TRUE, eventFaults |-> FALSE,
                 maxConvs |-> MaxConvs, maxMsgs |-> MaxPageMsgs,
                 maxAtts |-> MaxAtts]

NextPost ==
    \/ \E p \in DOMAIN procs : CallCreateConversation(p, Channels)
    \/ \E p \in DOMAIN procs : PostMessage(p)
    \/ \E p \in DOMAIN procs : CallGetMessageAfterSend(p)
    \/ \E p \in DOMAIN procs : CcInsert(p)
    \/ \E p \in DOMAIN procs : GcCache(p)
    \/ \E p \in DOMAIN procs : GcStore(p)
    \/ \E p \in DOMAIN procs : GcSet(p)
    \/ \E p \in DOMAIN procs : SmInsert(p)
    \/ \E p \in DOMAIN procs : SmPublish(p)
    \/ \E p \in DOMAIN procs : GmLoad(p)
    \/ \E p \in DOMAIN procs : GmAtts(p)
    \/ \E p \in DOMAIN procs : Return(p)
    \/ Tick

SpecPost == InitPost /\ [][NextPost]_vars

----------------------------------------------------------------------------
(* Specification: requests on conversations served one at a time, every   *)
(* cache call able to fail, and Redis counting down the expiration of its  *)
(* keys: time does not stop, and a key whose expiration has run out is     *)
(* removed                                                                 *)

InitExpiry ==
    /\ conversations = <<>>
    /\ messages = <<>>
    /\ attachments = <<>>
    /\ cache = <<>>
    /\ events = <<>>
    /\ clock = 0
    /\ procs = [p \in SeqProcs |-> IdleFrame]
    /\ settled = <<>>
    /\ files = <<>>
    /\ ttl = <<>>
    /\ wiring = [cache |-> "redis", events |-> "redis", cacheFaults |-> TRUE,
                 storeFaults |-> FALSE, eventFaults |-> FALSE,
                 maxConvs |-> MaxConvs, maxMsgs |-> MaxMsgs,
                 maxAtts |-> MaxAtts]

NextExpiry ==
    \/ \E p \in DOMAIN procs : CallCreateConversation(p, {"web"})
    \/ \E p \in DOMAIN procs : CallGetConversation(p)
    \/ \E p \in DOMAIN procs : CallUpdateConversationStatus(p)
    \/ \E p \in DOMAIN procs : CallGetConversationAfterUpdate(p)
    \/ \E p \in DOMAIN procs : CcInsert(p)
    \/ \E p \in DOMAIN procs : GcCache(p)
    \/ \E p \in DOMAIN procs : GcStore(p)
    \/ \E p \in DOMAIN procs : GcSet(p)
    \/ \E p \in DOMAIN procs : UsUpdate(p)
    \/ \E p \in DOMAIN procs : UsDelete(p)
    \/ \E p \in DOMAIN procs : Return(p)
    \/ Age
    \/ \E id \in DOMAIN cache : ExpireDue(id)

FairExpiry ==
    /\ WF_vars(Age)
    /\ \A id \in 1..MaxConvs : WF_vars(ExpireDue(id))

SpecExpiry == InitExpiry /\ [][NextExpiry]_vars /\ FairExpiry

----------------------------------------------------------------------------
(* Specification: requests served one at a time by the service as main()   *)
(* wires it with a Redis client or without one; store calls can fail, the  *)
(* calls to Redis do not                                                   *)

InitWiring ==
    /\ conversations = <<>>
    /\ messages = <<>>
    /\ attachments = <<>>
    /\ cache = <<>>
    /\ events = <<>>
    /\ clock = 0
    /\ procs = [p \in SeqProcs |-> IdleFrame]
    /\ settled = <<>>
    /\ files = <<>>
    /\ ttl = <<>>
    /\ \E collaborator \in {"redis", "noop"} :
         wiring = [cache |-> collaborator, events |-> collaborator,
                   cacheFaults |-> FALSE, storeFaults |-> TRUE,
                   eventFaults |-> FALSE,
                   maxConvs |-> MaxConvs, maxMsgs |-> MaxMsgs,
                   maxAtts |-> MaxAtts]

SpecWiring == InitWiring /\ [][Next]_vars

----------------------------------------------------------------------------
(* Specification: two clients whose status updates overlap while time       *)
(* passes, each UPDATE taken in the two steps of its transaction; no call   *)
(* fails                                                                    *)

InitClock ==
    /\ conversations = <<>>
    /\ messages = <<>>
    /\ attachments = <<>>
    /\ cache = <<>>
    /\ events = <<>>
    /\ clock = 0
    /\ procs = [p \in Procs |-> IdleFrame]
    /\ settled = <<>>
    /\ files = <<>>
    /\ ttl = <<>>
    /\ wiring = [cache |-> "redis", events |-> "redis", cacheFaults |-> FALSE,
                 storeFaults |-> FALSE, eventFaults |-> FALSE,
                 maxConvs |-> MaxConvs, maxMsgs |-> MaxMsgs,
                 maxAtts |-> MaxAtts]

NextClock ==
    \/ \E p \in DOMAIN procs : CallCreateConversation(p, {"web"})
    \/ \E p \in DOMAIN procs : CallUpdateConversationStatus(p)
    \/ \E p \in DOMAIN procs : CcInsert(p)
    \/ \E p \in DOMAIN procs : GcCache(p)
    \/ \E p \in DOMAIN procs : GcStore(p)
    \/ \E p \in DOMAIN procs : GcSet(p)
    \/ \E p \in DOMAIN procs : UsExec(p)
    \/ \E p \in DOMAIN procs : UsRow(p)
    \/ \E p \in DOMAIN procs : UsDelete(p)
    \/ \E p \in DOMAIN procs : Return(p)
    \/ Tick

SpecClock == InitClock /\ [][NextClock]_vars

----------------------------------------------------------------------------
(* Properties of the service *)

Frames == {procs[p] : p \in DOMAIN procs}
Finished(op) == {f \in Frames : f.pc = "done" /\ f.op = op}
Made(f, call, out) ==
    \E i \in DOMAIN f.io : f.io[i] = [call |-> call, out |-> out]
Called(f, call) == \E i \in DOMAIN f.io : f.io[i].call = call
Quiescent == \A p \in DOMAIN procs : ~InFlight(p)

\* C1: GetConversation on an existing conversation, asked by its owner,
\* succeeds and returns that conversation (the id, owner, channel and creation
\* time CreateConversation stored), whether the cache or the store answered and
\* whatever happened since, unless the store read itself failed; asked by
\* anyone else it returns an error and no conversation data.
C1_OwnerReadsOthersDoNot ==
    \A f \in Finished("GetConversation") :
        f.cid \in DOMAIN conversations =>
            LET C == conversations[f.cid] IN
            IF f.user = C.userId
            THEN \/ /\ f.res.ok
                    /\ f.res.val.id = C.id
                    /\ f.res.val.userId = C.userId
                    /\ f.res.val.channel = C.channel
                    /\ f.res.val.createdAt = C.createdAt
                    /\ f.resp.data = f.res.val
                 \/ /\ Made(f, "conversations.get", "err")
                    /\ f.res = Fail(ErrGetConversation)
            ELSE /\ ~f.res.ok
                 /\ f.res.val = <<>>
                 /\ f.resp.data = <<>>

\* the owner reads a conversation from the cache after its status was updated
C1_Witness ==
    \E f \in Finished("GetConversation") :
        /\ f.cid \in DOMAIN conversations
        /\ f.user = conversations[f.cid].userId
        /\ conversations[f.cid].status # ConversationStatusActive
        /\ Made(f, "cache.get", "hit")
        /\ f.res.ok

\* C2: whenever no request is in flight (so in particular no update is between
\* its store write and its cache invalidation), every conversation entry in
\* the cache equals the record the store holds for that id.
C2_CacheEqualsStore ==
    Quiescent =>
        \A id \in DOMAIN cache :
            /\ id \in DOMAIN conversations
            /\ UnmarshalConversation(cache[id]) = conversations[id]

\* C3: a GetConversation called after UpdateConversationStatus(id, closed)
\* returned success, with no other update of id begun since, returns status
\* closed.
C3_GetAfterUpdateSeesClosed ==
    \A f \in Finished("GetConversation") :
        (f.expect = "closed" /\ f.res.ok) => f.res.val.status = "closed"

\* C4: a GetConversation that finds in the cache a copy owned by someone else
\* goes on to the store; a read of the store that finds no record, or one owned
\* by someone else, ends the call in an error; and a conversation returned
\* straight from the cache is owned by the requester.
C4_CachedCopyOnlyToItsOwner ==
    [][\A p \in DOMAIN procs :
        LET f == procs[p]
            g == procs'[p]
        IN /\ (/\ f.pc = "gc_cache" /\ g.pc # f.pc
               /\ f.cid \in DOMAIN cache
               /\ UnmarshalConversation(cache[f.cid]).userId # f.user)
                  => g.pc = "gc_store"
           /\ (/\ f.pc = "gc_store" /\ g.pc # f.pc
               /\ ConvGetByID(conversations, f.cid).id = NoSuchId)
                  => (g.pc = "done" /\ ~g.res.ok)
           /\ (/\ f.pc = "gc_store" /\ g.pc # f.pc
               /\ f.cid \in DOMAIN conversations
               /\ conversations[f.cid].userId # f.user)
                  => (g.pc = "done" /\ ~g.res.ok)
           /\ (/\ f.pc = "gc_cache" /\ g.pc = "done"
               /\ g.op = "GetConversation" /\ g.res.ok)
                  => g.res.val.userId = f.user
      ]_vars

\* a cache hit on another user's conversation was passed to the store, which
\* refused the requester
C4_Witness ==
    \E f \in Finished("GetConversation") :
        /\ Made(f, "cache.get", "hit")
        /\ Made(f, "conversations.get", "ok")
        /\ f.res = Fail(ErrAccessDenied)

\* C5: no step of a SendMessage whose sender is not the owner of the
\* conversation changes the message store or publishes an event, and the call
\* ends in an error.
C5_NonOwnerSendChangesNothing ==
    [][\A p \in DOMAIN procs :
        LET f == procs[p]
            g == procs'[p]
        IN (/\ f.op = "SendMessage" /\ f.pc # "done" /\ g.pc # f.pc
            /\ f.cid \in DOMAIN conversations
            /\ conversations[f.cid].userId # f.user)
               => /\ messages' = messages
                  /\ events' = events
                  /\ g.pc \in {"gc_store", "done"}
                  /\ g.pc = "done" => ~g.res.ok
      ]_vars

\* a non-owner's SendMessage found the conversation in the cache and failed
C5_Witness ==
    \E f \in Finished("SendMessage") :
        /\ f.cid \in DOMAIN conversations
        /\ conversations[f.cid].userId # f.user
        /\ Made(f, "cache.get", "hit")
        /\ ~f.res.ok

\* C6: any two failed GetConversation calls, one by a non-owner of an existing
\* conversation and one for an id that does not exist, return the same result.
C6_DeniedSameAsNotFound ==
    \A f, g \in Finished("GetConversation") :
        (~f.res.ok /\ ~g.res.ok) => f.res = g.res

\* C7: in every operation a cache invalidation comes after a store update
\* that succeeded, and an event publish after a message insert that succeeded.
C7_WriteThenInvalidateThenPublish ==
    \A f \in Frames :
        \A i \in DOMAIN f.io :
            /\ f.io[i].call = "cache.delete" =>
                /\ f.op = "UpdateConversationStatus"
                /\ \E j \in 1..(i - 1) :
                      f.io[j] = [call |-> "conversations.update", out |-> "ok"]
            /\ f.io[i].call = "events.publish" =>
                /\ f.op = "SendMessage"
                /\ \E j \in 1..(i - 1) :
                      f.io[j] = [call |-> "messages.create", out |-> "ok"]

\* an event has been published, and a status update has gone on to invalidate
\* the cache
C7_Witness ==
    /\ events # <<>>
    /\ \E f \in Finished("UpdateConversationStatus") :
          Called(f, "cache.delete")

\* the outcome of the first call of that name a request made, "none" if none
Outcome(f, call) ==
    LET made == SelectSeq(f.io, LAMBDA e : e.call = call)
    IN IF Len(made) = 0 THEN "none" ELSE made[1].out

CacheErred(f) ==
    \E i \in DOMAIN f.io :
        /\ f.io[i].call \in {"cache.get", "cache.set", "cache.delete"}
        /\ f.io[i].out = "err"

\* what GetConversation returns when every cache lookup misses: the store's
\* answer, checked for ownership
UncachedGetConversation(f) ==
    LET conversation == ConvGetByID(conversations, f.cid) IN
    IF Outcome(f, "conversations.get") = "err" THEN Fail(ErrGetConversation)
    ELSE IF conversation = NilConv THEN Fail(ErrNoRowsConversation)
    ELSE IF conversation.userId # f.user THEN Fail(ErrAccessDenied)
    ELSE Ok(conversation)

\* the results GetMessage may return to f when every cache lookup misses (one
\* for each order the attachments may be loaded in)
UncachedGetMessage(f) ==
    LET message == MsgGetByID(messages, f.req.mid)
        access == UncachedGetConversation(f)
    IN
    IF Outcome(f, "messages.get") = "err" THEN {Fail(ErrGetMessage)}
    ELSE IF message = NilMsg THEN {Fail(ErrNoRowsMessage)}
    ELSE IF ~access.ok THEN {Fail(access.err)}
    ELSE IF Outcome(f, "attachments.list") = "err" THEN {Ok(message)}
    ELSE {Ok([message EXCEPT !.attachments = loaded]) :
            loaded \in AttGetByMessageID(attachments, message.id)}

\* r is what the operation of the finished request f returns when every cache
\* lookup misses, the store and the event sink answering as they answered f
Uncached(f, r) ==
    LET access == UncachedGetConversation(f) IN
    CASE f.op = "GetConversation" -> r = access
      [] f.op = "UpdateConversationStatus" ->
            IF ~access.ok THEN r = Fail(access.err)
            ELSE IF Outcome(f, "conversations.update") = "err"
            THEN r = Fail(ErrUpdateConversation)
            ELSE r = Ok(<<>>)
      [] f.op = "SendMessage" ->
            IF ~access.ok THEN r = Fail(access.err)
            ELSE IF Outcome(f, "messages.create") = "err"
            THEN r = Fail(ErrCreateMessage)
            ELSE /\ r.ok
                 /\ r.val.id \in DOMAIN messages
                 /\ r.val = MsgGetByID(messages, r.val.id)
                 /\ r.val.conversationId = f.cid
                 /\ r.val.senderId = f.user
                 /\ r.val.senderType = f.req.senderType
                 /\ r.val.content = f.req.content
                 /\ r.val.contentType = f.req.contentType
                 /\ r.val.metadata = f.req.metadata
      [] f.op = "GetMessages" ->
            IF ~access.ok THEN r = Fail(access.err)
            ELSE IF Outcome(f, "messages.list") = "err"
            THEN r = Fail(ErrGetMessages)
            ELSE /\ r.ok
                 /\ \E page \in MsgGetByConversationID(messages, f.cid, f.req) :
                      LET loads == SelectSeq(f.io,
                                     LAMBDA e : e.call = "attachments.list")
                      IN /\ Len(r.val) = Len(page)
                         /\ Len(loads) = Len(page)
                         /\ \A i \in DOMAIN page :
                              IF loads[i].out = "err" THEN r.val[i] = page[i]
                              ELSE \E loaded \in AttGetByMessageID(
                                                    attachments, page[i].id) :
                                      r.val[i] = [page[i] EXCEPT
                                                    !.attachments = loaded]
      [] f.op = "GetMessage" -> r \in UncachedGetMessage(f)
      [] f.op = "GetAttachment" ->
            LET attachment == AttGetByID(attachments, f.req.aid) IN
            IF Outcome(f, "attachments.get") = "err"
            THEN r = Fail(ErrGetAttachment)
            ELSE IF attachment = NilAtt THEN r = Fail(ErrNoRowsAttachment)
            ELSE IF \E got \in UncachedGetMessage(f) : ~got.ok
            THEN r \in UncachedGetMessage(f)
            ELSE r = Ok(attachment)
      [] OTHER -> TRUE

\* C8: a request that met a cache error (on get, set or delete) returns what
\* its operation returns when every cache lookup misses; this covers
\* GetConversation, UpdateConversationStatus, SendMessage, GetMessages,
\* GetMessage and GetAttachment.
C8_CacheErrorsChangeNoResult ==
    \A f \in Frames :
        (f.pc = "done" /\ CacheErred(f)) => Uncached(f, f.res)

\* a GetAttachment succeeded although its cache lookup failed
C8_Witness ==
    \E f \in Finished("GetAttachment") :
        /\ Made(f, "cache.get", "err")
        /\ f.res.ok

\* C9 as stated: whenever a cache entry is set, the request setting it is a
\* GetConversation.
C9_OnlyGetConversationSets ==
    [][\A k \in DOMAIN cache' :
        (k \notin DOMAIN cache \/ cache'[k] # cache[k]) =>
            \E p \in DOMAIN procs :
                procs[p].pc = "gc_set" /\ procs[p].op = "GetConversation"
      ]_vars

\* C9: a cache entry is set only by the GetConversation step of a request
\* (a GetConversation, or an UpdateConversationStatus, SendMessage,
\* GetMessages, GetMessage or GetAttachment that calls it), after the store
\* returned the conversation and its userId equals the requester, and the entry
\* is that record; a GetConversation that fails has set nothing; a
\* CreateConversation never sets an entry.
C9_SetOnlyAfterOwnedStoreRead ==
    [][/\ \A k \in DOMAIN cache' :
            (k \notin DOMAIN cache \/ cache'[k] # cache[k]) =>
                \E p \in DOMAIN procs :
                    LET f == procs[p] IN
                    /\ f.pc = "gc_set" /\ procs'[p].pc # "gc_set"
                    /\ f.op # "CreateConversation"
                    /\ f.cid = k
                    /\ f.io[Len(f.io)] = [call |-> "conversations.get",
                                          out |-> "ok"]
                    /\ conversations[k].userId = f.user
                    /\ cache'[k] = MarshalConversation(conversations[k])
       /\ \A p \in DOMAIN procs :
            LET f == procs[p]
                g == procs'[p]
            IN /\ (f.op = "CreateConversation" /\ g # f) => cache' = cache
               /\ (/\ f.pc \in {"gc_cache", "gc_store", "gc_set"}
                   /\ g.pc = "done" /\ ~g.res.ok)
                      => (cache' = cache /\ ~Called(g, "cache.set"))
      ]_vars

\* a SendMessage set the cache entry of its conversation
C9_Witness ==
    \E f \in Finished("SendMessage") :
        /\ Made(f, "cache.set", "ok")
        /\ f.cid \in DOMAIN cache

C11_SentMessageComesFirst ==
    \A f \in Finished("GetMessages") :
        (f.prior.ok /\ f.res.ok) =>
            /\ Len(f.res.val) >= 1
            /\ f.res.val[1].id = f.prior.val.id

\* the conversation a request on messages or attachments is about: the one
\* named, or the one the stored message or the attachment's message is in
RootConversation(f) ==
    CASE f.op \in {"SendMessage", "GetMessages"} -> f.cid
      [] f.op = "GetMessage" /\ f.req.mid \in DOMAIN messages ->
            messages[f.req.mid].conversationId
      [] f.op = "GetAttachment" /\ f.req.aid \in DOMAIN attachments ->
            messages[attachments[f.req.aid].messageId].conversationId
      [] OTHER -> NoSuchId

\* C12: GetAttachment on a stored attachment of message M returns exactly that
\* attachment to the owner of M's conversation, unless one of its store reads
\* failed; to every other user it returns an error and no attachment data,
\* in the service result and in the response alike.
C12_AttachmentOnlyToOwner ==
    \A f \in Finished("GetAttachment") :
        f.req.aid \in DOMAIN attachments =>
            IF f.user = conversations[RootConversation(f)].userId
            THEN \/ f.res = Ok(attachments[f.req.aid])
                 \/ /\ ~f.res.ok
                    /\ \E call \in {"attachments.get", "messages.get",
                                     "conversations.get"} :
                            Made(f, call, "err")
            ELSE /\ ~f.res.ok
                 /\ f.res.val = <<>>
                 /\ f.resp.data = <<>>

\* the owner of the conversation got an attachment of one of its messages
C12_Witness ==
    \E f \in Finished("GetAttachment") :
        /\ f.req.aid \in DOMAIN attachments
        /\ f.user = conversations[RootConversation(f)].userId
        /\ f.res = Ok(attachments[f.req.aid])
        /\ f.resp.status = 200

\* C13: SendMessage, GetMessages, GetMessage and GetAttachment return success
\* to a user only when that user owns the conversation the message or
\* attachment belongs to, and then only with data of that conversation; when
\* they fail they return no data.
C13_OnlyOwnerReadsOrAdds ==
    \A f \in Frames :
        (f.pc = "done" /\ f.op \in {"SendMessage", "GetMessages", "GetMessage",
                                    "GetAttachment"}) =>
            IF f.res.ok
            THEN /\ RootConversation(f) \in DOMAIN conversations
                 /\ conversations[RootConversation(f)].userId = f.user
                 /\ f.op = "SendMessage" =>
                        /\ f.res.val.conversationId = RootConversation(f)
                        /\ f.res.val.senderId = f.user
                 /\ f.op = "GetMessages" =>
                        \A i \in DOMAIN f.res.val :
                            f.res.val[i].conversationId = RootConversation(f)
                 /\ f.op = "GetMessage" =>
                        f.res.val.conversationId = RootConversation(f)
                 /\ f.op = "GetAttachment" =>
                        f.res.val.messageId \in DOMAIN messages
            ELSE /\ f.res.val = <<>>
                 /\ f.resp.data = <<>>

\* a user who does not own the conversation asked for one of its messages
\* and was refused
C13_Witness ==
    \E f \in Finished("GetMessage") :
        /\ f.req.mid \in DOMAIN messages
        /\ conversations[RootConversation(f)].userId # f.user
        /\ f.res = Fail(ErrAccessDenied)

\* C14: when a client calls GetConversation(id, U), gets the conversation and
\* at once calls GetConversation(id, U) again, and the second call is answered
\* from the cache, the second call returns the same id, userId, channel,
\* status, createdAt and updatedAt as the first.
C14_SecondReadEqualsFirst ==
    \A f \in Finished("GetConversation") :
        (/\ f.prior.ok
         /\ f.res.ok
         /\ Made(f, "cache.get", "hit")
         /\ ~Called(f, "conversations.get")) =>
            /\ f.res.val.id = f.prior.val.id
            /\ f.res.val.userId = f.prior.val.userId
            /\ f.res.val.channel = f.prior.val.channel
            /\ f.res.val.status = f.prior.val.status
            /\ f.res.val.createdAt = f.prior.val.createdAt
            /\ f.res.val.updatedAt = f.prior.val.updatedAt

\* C15: a SendMessage whose insert succeeded and whose event publish failed
\* returns the created message and no error (201 to the client), and the
\* message it returned is the row in the store.
C15_PublishFailureKeepsMessage ==
    \A f \in Finished("SendMessage") :
        Made(f, "events.publish", "err") =>
            /\ Made(f, "messages.create", "ok")
            /\ f.res.ok
            /\ f.res.err = ""
            /\ f.res.val.id \in DOMAIN messages
            /\ MsgGetByID(messages, f.res.val.id) = f.res.val
            /\ f.resp.status = 201
            /\ \A i \in DOMAIN events : events[i].message.id # f.res.val.id

\* a message was stored and returned although its event was not published
C15_Witness ==
    \E f \in Finished("SendMessage") :
        /\ Made(f, "events.publish", "err")
        /\ f.res.ok
        /\ MsgGetByID(messages, f.res.val.id) = f.res.val
        /\ events = <<>>

\* C18: a SendMessage whose message insert failed returns an error and has
\* made no publish call, and no published event carries a message that is not
\* in the store; an UpdateConversationStatus whose conversation update failed
\* returns an error and has made no cache delete call.
C18_StoreFailureStopsTheOperation ==
    /\ \A f \in Finished("SendMessage") :
            Made(f, "messages.create", "err") =>
                /\ ~f.res.ok
                /\ f.res.val = <<>>
                /\ ~Called(f, "events.publish")
    /\ \A i \in DOMAIN events : events[i].message.id \in DOMAIN messages
    /\ \A f \in Finished("UpdateConversationStatus") :
            (\/ Made(f, "conversations.update", "err")
             \/ Made(f, "conversations.update", "norows")) =>
                /\ ~f.res.ok
                /\ ~Called(f, "cache.delete")

\* the insert of a message into an existing conversation of the sender
\* failed in the store
C18_Witness ==
    \E f \in Finished("SendMessage") :
        /\ f.cid \in DOMAIN conversations
        /\ conversations[f.cid].userId = f.user
        /\ Made(f, "messages.create", "err")
        /\ f.res = Fail(ErrCreateMessage)
        /\ f.resp.status = 500

\* C16: no step changes the userId of a stored conversation or removes
\* the conversation, and a conversation enters the store with the userId of
\* the CreateConversation call that inserts it; so after any sequence of
\* UpdateConversationStatus calls, on a copy from the store or from the cache,
\* the stored userId is the one given at creation.
C16_UserIdNeverChanges ==
    [][/\ \A id \in DOMAIN conversations :
              /\ id \in DOMAIN conversations'
              /\ conversations'[id].userId = conversations[id].userId
       /\ \A id \in DOMAIN conversations' \ DOMAIN conversations :
              \E p \in DOMAIN procs :
                  /\ procs[p].pc = "cc_insert"
                  /\ conversations'[id].userId = procs[p].user]_vars

\* a status update that worked on the cached copy has written the store and
\* the conversation still belongs to the user who asked
C16_Witness ==
    \E f \in Finished("UpdateConversationStatus") :
        /\ Made(f, "cache.get", "hit")
        /\ ~Called(f, "conversations.get")
        /\ Made(f, "conversations.update", "ok")
        /\ conversations[f.cid].status = f.req.status
        /\ conversations[f.cid].userId = f.user

\* C17: with two status updates by the owner in flight on one conversation,
\* each store update sets the stored status to the status its request asked
\* for and nothing else changes a stored status, so that once both have
\* finished the stored status is that of the store update that ran last; and
\* every finished update by the owner of an existing conversation returned
\* success.
C17_LastStoreUpdateWins ==
    [][/\ \A p \in DOMAIN procs :
              (procs[p].pc = "us_update" /\ procs'[p].pc # "us_update") =>
                  /\ procs'[p].pc = "us_delete"
                  /\ conversations'[procs[p].cid].status = procs[p].req.status
       /\ (\A p \in DOMAIN procs :
                ~(procs[p].pc = "us_update" /\ procs'[p].pc # "us_update")) =>
              \A id \in DOMAIN conversations :
                  conversations'[id].status = conversations[id].status
       /\ \A p \in DOMAIN procs :
              (/\ procs'[p].pc = "done"
               /\ procs'[p].op = "UpdateConversationStatus"
               /\ procs'[p].cid \in DOMAIN conversations'
               /\ conversations'[procs'[p].cid].userId = procs'[p].user) =>
                  procs'[p].res.ok]_vars

\* two overlapping status updates of one conversation, asking for different
\* statuses, have both finished with success
C17_Witness ==
    \E p, q \in DOMAIN procs :
        /\ p # q
        /\ procs[p].pc = "done" /\ procs[q].pc = "done"
        /\ procs[p].op = "UpdateConversationStatus"
        /\ procs[q].op = "UpdateConversationStatus"
        /\ procs[p].cid = procs[q].cid
        /\ procs[p].expect = "none" /\ procs[q].expect = "none"
        /\ procs[p].req.status # procs[q].req.status
        /\ procs[p].res.ok /\ procs[q].res.ok
        /\ conversations[procs[p].cid].status = procs[p].req.status

\* the loads of attachments a GetMessages call made, in the order of its page
AttachmentLoads(f) == SelectSeq(f.io, LAMBDA e : e.call = "attachments.list")

\* C19: a GetMessages call whose message query succeeded returns success
\* whatever the loads of attachments did; its list is a page of the stored
\* messages of the conversation as the query orders and cuts them, with one
\* load made per message; a message whose load failed carries an empty
\* attachment list, and every other message carries exactly its stored
\* attachments.
C19_AttachmentFailureLeavesPageWhole ==
    \A f \in Finished("GetMessages") :
        Made(f, "messages.list", "ok") =>
            /\ f.res.ok
            /\ f.resp.status = 200
            /\ Len(AttachmentLoads(f)) = Len(f.res.val)
            /\ [i \in DOMAIN f.res.val |-> MsgGetByID(messages, f.res.val[i].id)]
                  \in MsgGetByConversationID(messages, f.cid, f.req)
            /\ \A i \in DOMAIN f.res.val :
                  /\ [f.res.val[i] EXCEPT !.attachments = <<>>]
                        = MsgGetByID(messages, f.res.val[i].id)
                  /\ IF AttachmentLoads(f)[i].out = "err"
                     THEN f.res.val[i].attachments = <<>>
                     ELSE f.res.val[i].attachments
                            \in AttGetByMessageID(attachments, f.res.val[i].id)

\* a page of two messages that both have attachments in the store: the load
\* failed for one, which comes back without attachments, and the other comes
\* back with its attachment
C19_Witness ==
    \E f \in Finished("GetMessages") :
        /\ f.res.ok
        /\ Len(f.res.val) = 2
        /\ \E i, j \in DOMAIN f.res.val :
              /\ AttachmentLoads(f)[i].out = "err"
              /\ \E a \in DOMAIN attachments :
                    attachments[a].messageId = f.res.val[i].id
              /\ f.res.val[i].attachments = <<>>
              /\ AttachmentLoads(f)[j].out = "ok"
              /\ Len(f.res.val[j].attachments) = 1

Matching(user, filters) ==
    {id \in DOMAIN conversations :
        /\ conversations[id].userId = user
        /\ filters.channel # "" => conversations[id].channel = filters.channel
        /\ filters.status # "" => conversations[id].status = filters.status}

\* rows without their first offset entries, cut to at most limit entries
SkipThenAtMost(rows, offset, limit) ==
    SubSeq(rows, offset + 1,
           IF offset + limit < Len(rows) THEN offset + limit ELSE Len(rows))

\* rows without their first offset entries, cut to limit entries only when
\* limit is positive
SkipThenAtMostIfPositive(rows, offset, limit) ==
    IF limit > 0 THEN SkipThenAtMost(rows, offset, limit)
    ELSE SubSeq(rows, offset + 1, Len(rows))

\* a GetConversations call made the store query and no cache call
OnlyTheStoreQuery(f) ==
    /\ Len(f.io) = 1
    /\ f.io[1].call = "conversations.list"
    /\ f.res.ok <=> f.io[1].out = "ok"

\* C21 as stated: a successful GetConversations(U, filters) returns the
\* stored conversations of U that match the filters that are set, by
\* updatedAt descending, without the first offset entries and with at most
\* limit entries, and makes no cache call.
C21_ListIsFilteredSortedWindow ==
    \A f \in Finished("GetConversations") :
        /\ OnlyTheStoreQuery(f)
        /\ f.res.ok =>
              \E s \in RowOrders(conversations, Matching(f.user, f.req),
                                  "updatedAt", TRUE) :
                  f.res.val = SkipThenAtMost([i \in DOMAIN s |-> conversations[s[i]]],
                                             f.req.offset, f.req.limit)

\* C21 amended: as above, but the list is cut to limit entries only when
\* limit is positive; with limit 0 every matching conversation after the
\* offset is returned.
C21_ListIsFilteredSortedWindowIfLimited ==
    \A f \in Finished("GetConversations") :
        /\ OnlyTheStoreQuery(f)
        /\ f.res.ok =>
              \E s \in RowOrders(conversations, Matching(f.user, f.req),
                                  "updatedAt", TRUE) :
                  f.res.val = SkipThenAtMostIfPositive(
                                  [i \in DOMAIN s |-> conversations[s[i]]],
                                  f.req.offset, f.req.limit)

\* a user with two conversations asked for the second entry only and got
\* the one updated earlier
C21_Witness ==
    \E f \in Finished("GetConversations") :
        /\ f.res.ok
        /\ f.req.offset = 1
        /\ f.req.limit = 1
        /\ Len(f.res.val) = 1
        /\ \E id \in Matching(f.user, f.req) :
              conversations[id].updatedAt > f.res.val[1].updatedAt

\* C22: when UpdateConversationStatus, SendMessage or GetMessages is refused
\* because the caller does not own the conversation, the response the client
\* receives is the not-found / access-denied one (404 or 403), not the
\* internal-error one (500).
C22_DeniedIsNotInternalError ==
    \A f \in Frames :
        (/\ f.pc = "done"
         /\ f.op \in {"UpdateConversationStatus", "SendMessage", "GetMessages"}
         /\ f.cid \in DOMAIN conversations
         /\ conversations[f.cid].userId # f.user
         /\ f.res = Fail(ErrAccessDenied)) =>
            /\ f.resp.status \in {403, 404}
            /\ f.resp.code # "INTERNAL_ERROR"

\* what GetMessage and GetAttachment return for an id that does not exist
NotFoundOutcome(op) ==
    IF op = "GetMessage" THEN Fail(ErrNoRowsMessage)
    ELSE Fail(ErrNoRowsAttachment)

\* C23: a GetMessage or GetAttachment for an id that does not exist returns
\* the not-found failure, and a GetMessage or GetAttachment by a non-owner on
\* an existing message or attachment, when no store read fails, returns that
\* same failure.
C23_NonOwnerSeesNotFound ==
    \A f \in Finished("GetMessage") \cup Finished("GetAttachment") :
        (/\ ~Made(f, "messages.get", "err")
         /\ ~Made(f, "attachments.get", "err")
         /\ ~Made(f, "conversations.get", "err")) =>
            /\ RootConversation(f) = NoSuchId => f.res = NotFoundOutcome(f.op)
            /\ (/\ RootConversation(f) # NoSuchId
                /\ conversations[RootConversation(f)].userId # f.user) =>
                    f.res = NotFoundOutcome(f.op)

\* C24: every event put on the topic has kind "message.received", the
\* conversation id of the message it carries, and carries a message that the
\* store already held, unchanged, before the publish; published events and
\* stored messages are never changed or removed afterwards.
C24_EventsCarryStoredMessages ==
    [][/\ \A i \in DOMAIN events :
              i \in DOMAIN events' /\ events'[i] = events[i]
       /\ \A id \in DOMAIN messages :
              id \in DOMAIN messages' /\ messages'[id] = messages[id]
       /\ \A i \in DOMAIN events' \ DOMAIN events :
              /\ events'[i].type = "message.received"
              /\ events'[i].conversationId = events'[i].message.conversationId
              /\ events'[i].message.id \in DOMAIN messages
              /\ MsgGetByID(messages, events'[i].message.id)
                    = events'[i].message]_vars

\* an event is on the topic, emitted later than the message it carries was
\* stamped, and the store holds that message
C24_Witness ==
    \E i \in DOMAIN events :
        /\ events[i].type = "message.received"
        /\ events[i].timestamp > events[i].message.timestamp
        /\ MsgGetByID(messages, events[i].message.id) = events[i].message

\* C25: when an UpdateConversationStatus served alone has returned success
\* and its cache delete call worked, the cache holds no entry for the
\* conversation, whether or not the call itself had filled the cache while
\* reading the conversation.
C25_UpdateLeavesNoCacheEntry ==
    \A f \in Finished("UpdateConversationStatus") :
        (f.res.ok /\ Made(f, "cache.delete", "ok")) =>
            f.cid \notin DOMAIN cache

\* a status update that had filled the cache on its way has returned success
\* and the entry is gone
C25_Witness ==
    \E f \in Finished("UpdateConversationStatus") :
        /\ f.res.ok
        /\ Made(f, "cache.set", "ok")
        /\ Made(f, "cache.delete", "ok")
        /\ conversations[f.cid].status = f.req.status
        /\ f.cid \notin DOMAIN cache

\* C26: with SendMessage calls interleaved at every store, cache and publish
\* call, the insert of a call by the owner succeeds, adds a row under an id
\* no stored message had and leaves every stored message as it was; and any
\* two calls that have returned success returned messages with different
\* ids, both of which are in the store as returned.
C26_ConcurrentSendsAllStored ==
    [][/\ \A p \in DOMAIN procs :
              (procs[p].pc = "sm_insert" /\ procs'[p].pc # "sm_insert") =>
                  /\ procs'[p].pc = "sm_publish"
                  /\ procs'[p].msg.id \notin DOMAIN messages
                  /\ DOMAIN messages' = DOMAIN messages \cup {procs'[p].msg.id}
                  /\ MsgGetByID(messages', procs'[p].msg.id) = procs'[p].msg
                  /\ \A id \in DOMAIN messages : messages'[id] = messages[id]
       /\ \A p, q \in DOMAIN procs :
              (/\ p # q
               /\ procs'[p].pc = "done" /\ procs'[p].op = "SendMessage"
               /\ procs'[q].pc = "done" /\ procs'[q].op = "SendMessage"
               /\ procs'[p].res.ok /\ procs'[q].res.ok) =>
                  /\ procs'[p].res.val.id # procs'[q].res.val.id
                  /\ MsgGetByID(messages', procs'[p].res.val.id) = procs'[p].res.val
                  /\ MsgGetByID(messages', procs'[q].res.val.id) = procs'[q].res.val]_vars

\* two sends to one conversation overlapped: one has inserted its message
\* and not yet published, the other inserted after it and has returned, and
\* the store holds both messages
C26_Witness ==
    \E p, q \in DOMAIN procs :
        /\ procs[p].pc = "sm_publish"
        /\ procs[q].pc = "done" /\ procs[q].op = "SendMessage"
        /\ procs[q].res.ok
        /\ procs[p].cid = procs[q].cid
        /\ procs[p].msg.id < procs[q].res.val.id
        /\ MsgGetByID(messages, procs[p].msg.id) = procs[p].msg
        /\ MsgGetByID(messages, procs[q].res.val.id) = procs[q].res.val

StaleEntry(id) ==
    /\ id \in DOMAIN cache
    /\ id \in DOMAIN conversations
    /\ cache[id].status # conversations[id].status

\* C29: a conversation key that has been in the cache for some time is in
\* the end removed, by expiry if by nothing else, unless it is set anew; and
\* a cached conversation whose status is not the stored one does not stay:
\* in the end GetConversation reads the store, or a cache entry that holds
\* the stored status.
C29_StaleEntriesExpire ==
    \A id \in 1..MaxConvs :
        /\ (id \in DOMAIN cache /\ ttl[id] < KeyLifetime("conversation"))
              ~> (id \notin DOMAIN cache \/ ttl[id] = KeyLifetime("conversation"))
        /\ StaleEntry(id) ~> ~StaleEntry(id)

\* a status update left the conversation's old status in the cache (its
\* DeleteConversation failed) and the key's expiration has run out
C29_Witness ==
    \E f \in Finished("UpdateConversationStatus") :
        /\ f.res.ok
        /\ Made(f, "cache.delete", "err")
        /\ StaleEntry(f.cid)
        /\ ttl[f.cid] = 0

\* C30: a POST of the README's example body (no sender_id, no
\* conversation_id) by the owner of the conversation named in the URL,
\* none of whose store calls failed, is answered 201 with the created
\* message, which is stored under that conversation with the caller as its
\* sender.
C30_ExampleBodyIsAccepted ==
    \A f \in Finished("SendMessage") :
        (/\ f.req.present = ExampleSendMessageKeys
         /\ f.cid \in DOMAIN conversations
         /\ conversations[f.cid].userId = f.user
         /\ \A i \in DOMAIN f.io : f.io[i].out # "err") =>
            /\ f.resp.status = 201
            /\ f.res.ok
            /\ f.res.val.id \in DOMAIN messages
            /\ messages[f.res.val.id].conversationId = f.cid
            /\ messages[f.res.val.id].senderId = f.user

\* the message m has the fields the request req of user for conversation cid
\* asked for
AsRequested(m, req, user, cid) ==
    /\ m.conversationId = cid
    /\ m.senderType = req.senderType
    /\ m.senderId = user
    /\ m.content = req.content
    /\ m.contentType = req.contentType
    /\ m.metadata = req.metadata

\* C31: a successful SendMessage inserts its message under an id that is not
\* empty and that no stored message had, and returns it with the
\* conversationId, senderType, senderId, content, contentType and metadata
\* of the request; a GetMessage for it by the same user right afterwards,
\* when it succeeds, returns a message with the same id and the same six
\* fields.
C31_SentMessageReadsBackUnchanged ==
    [][/\ \A p \in DOMAIN procs :
              (procs[p].pc = "sm_insert" /\ procs'[p].pc = "sm_publish") =>
                  /\ procs'[p].msg.id # NoSuchId
                  /\ procs'[p].msg.id \notin DOMAIN messages
                  /\ procs'[p].msg.id \in DOMAIN messages'
       /\ \A p \in DOMAIN procs :
              LET f == procs'[p] IN
              /\ (f.pc = "done" /\ f.op = "SendMessage" /\ f.res.ok) =>
                    AsRequested(f.res.val, f.req, f.user, f.cid)
              /\ (f.pc = "done" /\ f.op = "GetMessage" /\ f.prior.ok
                                /\ f.res.ok) =>
                    /\ f.res.val.id = f.prior.val.id
                    /\ AsRequested(f.prior.val, f.req.sent, f.user, f.req.cid)
                    /\ AsRequested(f.res.val, f.req.sent, f.user, f.req.cid)]_vars

\* a message sent without metadata has been read back by its sender
C31_Witness ==
    \E f \in Finished("GetMessage") :
        /\ f.prior.ok
        /\ f.res.ok
        /\ f.req.sent.metadata = NilJSONB
        /\ f.res.val.id = f.prior.val.id
        /\ f.res.val.id \in DOMAIN messages

\* C32: CreateAttachment, whoever calls it, makes exactly one store write
\* and nothing else: when the write succeeds the attachment returned is a
\* new row linked to the given message id, with the url, type, size and
\* filename of the request, and the call returns success; when the write
\* fails the call returns an error and no row is added. Who owns the
\* conversation of the message plays no part.
C32_CreateAttachmentChecksNoOwner ==
    [][\A p \in DOMAIN procs :
          (procs[p].pc = "ca_insert" /\ procs'[p].pc # "ca_insert") =>
              LET f == procs[p]
                  g == procs'[p]
              IN /\ g.pc = "done"
                 /\ g.io = <<[call |-> "attachments.create",
                              out |-> IF g.res.ok THEN "ok" ELSE "err"]>>
                 /\ (f.req.mid \in DOMAIN messages /\ ~g.res.ok) =>
                        g.res = Fail(ErrCreateAttachment)
                 /\ IF g.res.ok
                    THEN /\ g.res.val.id \notin DOMAIN attachments
                         /\ attachments' =
                                attachments @@ (g.res.val.id :> g.res.val)
                         /\ g.res.val.messageId = f.req.mid
                         /\ g.res.val.url = f.req.url
                         /\ g.res.val.type = f.req.type
                         /\ g.res.val.size = f.req.size
                         /\ g.res.val.filename = f.req.filename
                    ELSE attachments' = attachments]_vars

\* a user who does not own the conversation of a message has attached a file
\* to that message
C32_Witness ==
    \E f \in Finished("CreateAttachment") :
        /\ f.res.ok
        /\ f.res.val.id \in DOMAIN attachments
        /\ attachments[f.res.val.id].messageId = f.req.mid
        /\ f.req.mid \in DOMAIN messages
        /\ conversations[messages[f.req.mid].conversationId].userId # f.user

\* the calls f made to the cache
CacheCalls(f) == SelectSeq(f.io, LAMBDA e : e.call \in {"cache.get", "cache.set", "cache.delete"})

\* C33: with requests served one at a time and no cache call failing, under
\* the Redis cache as under the no-op cache every operation returns what the
\* store alone determines (the result of the operation when every cache
\* lookup misses), a status update writes a copy that differs from the
\* stored conversation in nothing, and CreateConversation, GetConversations
\* and CreateAttachment make no cache call; so the same sequence of
\* operations gives the same results and the same store under both.
C33_CacheIsTransparent ==
    \A f \in Frames :
        /\ f.pc = "done" => Uncached(f, f.res)
        /\ f.pc = "us_update" => f.conv = ConvGetByID(conversations, f.cid)
        /\ f.op \in {"CreateConversation", "GetConversations",
                     "CreateAttachment"} => CacheCalls(f) = <<>>

\* under the Redis cache, a GetConversation after a status update was
\* answered from the cache
C33_Witness ==
    /\ wiring.cache = "redis"
    /\ \E f \in Finished("GetConversation") :
          /\ f.res.ok
          /\ Made(f, "cache.get", "hit")
          /\ f.res.val.status # ConversationStatusActive
          /\ f.res.val = ConvGetByID(conversations, f.cid)

\* C34: an UpdateConversationStatus whose store update succeeded and whose
\* cache delete failed returns success, and the GetConversation its caller
\* makes next, when it succeeds, returns the status the update set.
C34_FailedDeleteKeepsNewStatus ==
    /\ \A f \in Finished("UpdateConversationStatus") :
          Made(f, "cache.delete", "err") =>
              /\ f.res.ok
              /\ conversations[f.cid].status = f.req.status
    /\ \A f \in Finished("GetConversation") :
          (/\ f.prior.ok
           /\ f.req.invalidation = [call |-> "cache.delete", out |-> "err"]
           /\ f.res.ok) =>
              f.res.val.status = f.req.updated

\* the request f is a status update for an id that is not stored, or by a
\* user who does not own the conversation
UpdateByStranger(f) ==
    /\ f.op = "UpdateConversationStatus"
    /\ f.pc \notin {"idle", "done"}
    /\ \/ f.cid \notin DOMAIN conversations
       \/ conversations[f.cid].userId # f.user

\* C35: no step of an UpdateConversationStatus for an id that does not
\* exist, or by a user who does not own the conversation, changes the
\* conversation store or the cache, and the call ends with an error.
C35_RefusedUpdateChangesNothing ==
    [][\A p \in DOMAIN procs :
          (UpdateByStranger(procs[p]) /\ procs'[p] # procs[p]) =>
              /\ conversations' = conversations
              /\ cache' = cache
              /\ ttl' = ttl
              /\ procs'[p].pc = "done" => ~procs'[p].res.ok]_vars

\* a user asked to update a conversation of another user while the cache
\* held it, and got the access error; store and cache hold the conversation
\* as before
C35_Witness ==
    \E f \in Finished("UpdateConversationStatus") :
        /\ f.cid \in DOMAIN conversations
        /\ conversations[f.cid].userId # f.user
        /\ Made(f, "cache.get", "hit")
        /\ f.res = Fail(ErrAccessDenied)
        /\ f.cid \in DOMAIN cache
        /\ conversations[f.cid].status # f.req.status

\* C36: the store update of an UpdateConversationStatus, on a copy from the
\* store or from the cache, leaves id, userId, channel and createdAt of the
\* target as they were, sets its status to the requested one, changes no
\* other conversation, no message and no attachment; and no other step of
\* the operation changes the conversation store at all.
C36_UpdateTouchesStatusAndUpdatedAtOnly ==
    [][\A p \in DOMAIN procs :
          (procs[p].op = "UpdateConversationStatus" /\ procs'[p] # procs[p]
                /\ procs[p].pc \notin {"idle", "done"}) =>
              LET f == procs[p] IN
              /\ messages' = messages
              /\ attachments' = attachments
              /\ DOMAIN conversations' = DOMAIN conversations
              /\ \A id \in DOMAIN conversations \ {f.cid} :
                    conversations'[id] = conversations[id]
              /\ f.pc # "us_update" => conversations' = conversations
              /\ (f.pc = "us_update" /\ procs'[p].pc = "us_delete") =>
                    /\ conversations'[f.cid].id = conversations[f.cid].id
                    /\ conversations'[f.cid].userId = conversations[f.cid].userId
                    /\ conversations'[f.cid].channel = conversations[f.cid].channel
                    /\ conversations'[f.cid].createdAt
                          = conversations[f.cid].createdAt
                    /\ conversations'[f.cid].status = f.req.status]_vars

\* a status update that took its copy from the cache has changed the status
\* of a whatsapp conversation, which is still a whatsapp conversation of the
\* same user created at the same time
C36_Witness ==
    \E f \in Finished("UpdateConversationStatus") :
        /\ f.res.ok
        /\ Made(f, "cache.get", "hit")
        /\ ~Called(f, "conversations.get")
        /\ conversations[f.cid].status = f.req.status
        /\ conversations[f.cid].status # ConversationStatusActive
        /\ conversations[f.cid].channel = "whatsapp"
        /\ conversations[f.cid].updatedAt > conversations[f.cid].createdAt

\* the events on the topic that carry the message id
EventsOf(id) == {i \in DOMAIN events : events[i].message.id = id}

\* the publish calls the request f has made
PublishCalls(f) == SelectSeq(f.io, LAMBDA e : e.call = "events.publish")

\* C37 as stated: a finished SendMessage has at most one event on the topic,
\* and exactly one when its insert succeeded and the Redis publisher is the
\* one configured; there are never more events than stored messages.
C37_OneEventPerInsertedMessage ==
    /\ Len(events) <= Cardinality(DOMAIN messages)
    /\ \A id \in DOMAIN messages : Cardinality(EventsOf(id)) <= 1
    /\ \A f \in Finished("SendMessage") :
          (Made(f, "messages.create", "ok") /\ wiring.events = "redis") =>
              Cardinality(EventsOf(f.res.val.id)) = 1

\* C37, amended: a SendMessage makes one publish call when its insert
\* succeeded and none otherwise; that call is the only step of the operation
\* that changes the topic, and it appends one event when it succeeds and
\* nothing when it fails; no message has two events and there are never more
\* events than stored messages.
C37_OnePublishCallPerInsertedMessage ==
    [][/\ Len(events') <= Cardinality(DOMAIN messages')
       /\ \A id \in DOMAIN messages' :
              Cardinality({i \in DOMAIN events' : events'[i].message.id = id}) <= 1
       /\ \A p \in DOMAIN procs :
              LET f == procs[p]
                  g == procs'[p]
              IN (f.op = "SendMessage" /\ g # f /\ f.pc \notin {"idle", "done"}) =>
                    /\ f.pc # "sm_publish" => events' = events
                    /\ f.pc = "sm_publish" =>
                          /\ PublishCalls(f) = <<>>
                          /\ Len(PublishCalls(g)) = 1
                          /\ IF Made(g, "events.publish", "ok")
                             THEN events' = Append(events,
                                                   MessageEvent(f.msg, clock))
                             ELSE events' = events
                    /\ g.pc = "done" =>
                          Len(PublishCalls(g)) =
                              IF Made(g, "messages.create", "ok") THEN 1 ELSE 0]_vars

\* one SendMessage published its event, another stored its message and its
\* publish call failed: fewer events than messages
C37_Witness ==
    /\ Len(events) = 1
    /\ Cardinality(DOMAIN messages) = 2
    /\ \E f \in Finished("SendMessage") :
          /\ Made(f, "messages.create", "ok")
          /\ Made(f, "events.publish", "err")
          /\ EventsOf(f.res.val.id) = {}
          /\ Len(PublishCalls(f)) = 1

\* C38: a message created by POST /conversations/{id}/messages has as its
\* senderId the user of the bearer token and as its conversationId the id
\* of the URL, whatever sender_id and conversation_id the body carries, in
\* the answer and in the store; and a request whose token gives no user is
\* answered 401 without a call to the service.
C38_SenderIsTheTokenUser ==
    /\ \A f \in Frames :
          f.op = "SendMessage" =>
              /\ f.req.token = NoUser =>
                    /\ f.pc = "done"
                    /\ f.resp.status = 401
                    /\ f.res = NoResult
                    /\ f.io = <<>>
              /\ f.pc = "sm_publish" =>
                    /\ f.msg.senderId = f.req.token
                    /\ f.msg.conversationId = f.cid
              /\ (f.pc = "done" /\ f.res.ok) =>
                    /\ f.resp.status = 201
                    /\ f.res.val.senderId = f.req.token
                    /\ f.res.val.conversationId = f.cid
                    /\ MsgGetByID(messages, f.res.val.id) = f.res.val
    /\ \A id \in DOMAIN messages :
          /\ messages[id].senderId # NoUser
          /\ messages[id].senderId
                = conversations[messages[id].conversationId].userId

\* a request whose body named another user as sender created a message, and
\* the message has the user of the token as its sender
C38_Witness ==
    \E f \in Finished("SendMessage") :
        /\ f.res.ok
        /\ f.req.body.sender_id # f.req.token
        /\ f.req.body.sender_id \in Users
        /\ messages[f.res.val.id].senderId = f.req.token

\* C39: no step makes the updatedAt of a stored conversation smaller, and
\* the updatedAt of a stored conversation is never earlier than its
\* createdAt, however the status updates of several clients overlap.
C39_UpdatedAtNeverDecreases ==
    [][\A id \in DOMAIN conversations' :
          /\ conversations'[id].updatedAt >= conversations'[id].createdAt
          /\ id \in DOMAIN conversations =>
                conversations'[id].updatedAt >= conversations[id].updatedAt]_vars

\* the UploadFile call f failed while writing the content, returned the
\* write error and no reference
CopyFailureReported(f) ==
    /\ ~f.res.ok
    /\ f.res.err = ErrWriteFile
    /\ f.res.val = <<>>

\* C40: an UploadFile call whose copy of the content failed has returned an
\* error and no reference, and the file it had created is no longer in the
\* file store.
C40_FailedCopyLeavesNoFile ==
    \A f \in Finished("UploadFile") :
        Made(f, "files.copy", "err") =>
            /\ CopyFailureReported(f)
            /\ f.req.url \notin DOMAIN files

====
